---- MODULE Spec2Model ----
(***************************************************************************)
(* A model of git-p4 (src/src/git-p4.py): the import pipeline (P4Sync),    *)
(* the provenance notes it writes and reads back, the label tagger, the    *)
(* branch splitter and the submit engine (P4Submit).                       *)
(*                                                                         *)
(* Strings of the program (depot paths, branch names, ref names) are       *)
(* sequences of one-character strings, so that startswith, slicing and     *)
(* concatenation are computed as Python computes them.                     *)
(*                                                                         *)
(* The depot client (p4) and the DVCS driver (git, git fast-import) are    *)
(* external processes; they are modelled by their contracts over the       *)
(* variables depot and git.                                                *)
(***************************************************************************)
EXTENDS Integers, Sequences, FiniteSets, TLC

VARIABLES
    depot,      \* the environment: the depot, and the interpreter's dict order
    git,        \* the DVCS repository: commits, import refs, notes ref
    sync,       \* the P4Sync object of the last sync command, as it ended
    runs,       \* number of sync commands run
    hist,       \* the last sync command and the one before (history variable)
    sub,        \* the P4Submit object of the running submit command
    client,     \* the depot client workspace of the submit command
    spl,        \* branch mapping and file splitting in isolation
    nt,         \* the text of notes, written and read back in isolation
    mrg,        \* isMergeCommit in isolation
    rdr,        \* the P4FileReader object in isolation
    scratch     \* the scratch directories of the content filter, in isolation

vars == <<depot, git, sync, runs, hist, sub, client, spl, nt, mrg, rdr, scratch>>

----------------------------------------------------------------------------
(* Bounds of the model.                                                    *)

MaxChanges == 3      \* changelists submitted to the depot
MaxRuns == 3         \* sync commands run

----------------------------------------------------------------------------
(* Python strings, lists and dicts.                                        *)

\* str.startswith
StartsWith(s, p) == Len(p) <= Len(s) /\ SubSeq(s, 1, Len(p)) = p

\* s[len(p):]
StripPrefix(s, p) == SubSeq(s, Len(p) + 1, Len(s))

\* str.endswith
EndsWith(s, e) == Len(e) <= Len(s) /\ SubSeq(s, Len(s) - Len(e) + 1, Len(s)) = e

EmptyMap == [x \in {} |-> 0]

Put(m, k, v) == [x \in (DOMAIN m) \cup {k} |-> IF x = k THEN v ELSE m[x]]

Remove(m, k) == [x \in (DOMAIN m) \ {k} |-> m[x]]

Range(s) == {s[i] : i \in DOMAIN s}

RECURSIVE SeqMax(_)
SeqMax(s) == IF s = <<>> THEN 0
             ELSE LET r == SeqMax(Tail(s)) IN IF Head(s) > r THEN Head(s) ELSE r

RECURSIVE Filter(_, _)
\* [x for x in s if x in keep]
Filter(s, keep) == IF s = <<>> THEN <<>>
                   ELSE IF Head(s) \in keep THEN <<Head(s)>> \o Filter(Tail(s), keep)
                   ELSE Filter(Tail(s), keep)

RECURSIVE InsertSorted(_, _)
InsertSorted(x, s) == IF s = <<>> THEN <<x>>
                      ELSE IF x <= Head(s) THEN <<x>> \o s
                      ELSE <<Head(s)>> \o InsertSorted(x, Tail(s))

RECURSIVE SortInts(_)
\* list.sort() on a list of integers
SortInts(s) == IF s = <<>> THEN <<>> ELSE InsertSorted(Head(s), SortInts(Tail(s)))

----------------------------------------------------------------------------
(* The names of the modelled depot and repository.                         *)

Slash == <<"/">>
DepotRoot == <<"/", "/", "d", "/">>
Main == <<"m", "a", "i", "n">>
Master == <<"m", "a", "s", "t", "e", "r">>
BranchB == <<"b">>
FileF == <<"f">>
FileG == <<"g">>

MainF == DepotRoot \o Main \o Slash \o FileF
MainG == DepotRoot \o Main \o Slash \o FileG
BF == DepotRoot \o BranchB \o Slash \o FileF

\* getRefsPrefix(importIntoRemotes = True)
getRefsPrefix == <<"r", "e", "f", "s", "/", "r", "e", "m", "o", "t", "e", "s", "/", "p", "4", "/">>

\* A total order of the branch names: the order in which this build of the
\* interpreter iterates a dict or a set that holds them.
BranchNames == {Main, Master, BranchB}

----------------------------------------------------------------------------
(* The depot (external): changelists, branch specs and labels, and the     *)
(* answers of the depot client to the commands the program issues.         *)
(*   depot.changes[c]  the file entries of changelist c (numbers are the   *)
(*                     positions, so they increase in submission order)    *)
(*   depot.specs       the views of the branch specs, <<source, dest>>     *)
(*   depot.labels      the labels: name, views, path -> labelled revision  *)

DepotFiles == {MainF, MainG, BF}

\* Depot file types, as "p4 describe" and "p4 print" report them
TextType == <<"t", "e", "x", "t">>

\* What one submitted changelist may do to a file: the path, the source it
\* is integrated from (<<>>: none), the file type and content it gets, and
\* whether the file is deleted.
Touch(p, s) == [path |-> p, src |-> s, type |-> TextType, data |-> <<>>, del |-> FALSE]

ChangeShapes ==
    { <<Touch(MainF, <<>>)>>,
      <<Touch(BF, <<>>)>>,
      <<Touch(BF, MainF)>>,
      <<Touch(MainF, BF)>>,
      <<Touch(MainF, <<>>), Touch(BF, <<>>)>>,
      <<Touch(MainG, <<>>)>> }

\* Branch specs "//d/main/... //d/b/..." and its reverse.
SpecMainToB == <<DepotRoot \o Main \o <<"/", ".", ".", ".">>,
                 DepotRoot \o BranchB \o <<"/", ".", ".", ".">> >>
SpecBToMain == <<SpecMainToB[2], SpecMainToB[1]>>

SpecSets == { <<SpecMainToB>>, <<SpecMainToB, SpecBToMain>> }

\* Number of revisions path p has up to changelist c.
RECURSIVE RevAt(_, _, _)
RevAt(ch, p, c) ==
    IF c = 0 THEN 0
    ELSE RevAt(ch, p, c - 1)
         + (IF \E i \in DOMAIN ch[c] : ch[c][i].path = p THEN 1 ELSE 0)

\* The newest changelist <= c that touches path p (0: none).
RECURSIVE LastChangeOf(_, _, _)
LastChangeOf(ch, p, c) ==
    IF c = 0 THEN 0
    ELSE IF \E i \in DOMAIN ch[c] : ch[c][i].path = p THEN c
    ELSE LastChangeOf(ch, p, c - 1)

\* The changelist in which path p got revision r (0: none).
ChangeOfRev(ch, p, r) ==
    IF \E c \in DOMAIN ch : RevAt(ch, p, c) = r /\ LastChangeOf(ch, p, c) = c
    THEN CHOOSE c \in DOMAIN ch : RevAt(ch, p, c) = r /\ LastChangeOf(ch, p, c) = c
    ELSE 0

\* The file entries a submit of shape sh creates as changelist Len(ch) + 1.
NewEntries(ch, sh) ==
    [i \in DOMAIN sh |->
        LET p == sh[i].path
            exists == RevAt(ch, p, Len(ch)) > 0
        IN [path |-> p,
            src |-> sh[i].src,
            type |-> sh[i].type,
            data |-> sh[i].data,
            rev |-> RevAt(ch, p, Len(ch)) + 1,
            action |-> IF sh[i].del THEN "delete"
                       ELSE IF sh[i].src # <<>>
                       THEN (IF exists THEN "integrate" ELSE "branch")
                       ELSE (IF exists THEN "edit" ELSE "add")]]

\* "#head" as the upper end of a changelist range
HeadRev == -1

\* "p4 changes p...@lo,hi" for each p of depotPaths: newest first, as p4
\* prints them.
RECURSIVE P4Changes(_, _, _, _)
P4Changes(ch, depotPaths, lo, hi) ==
    LET top == IF hi = HeadRev \/ hi > Len(ch) THEN Len(ch) ELSE hi
    IN IF top < lo \/ top < 1 THEN <<>>
       ELSE (IF \E i \in DOMAIN ch[top] : \E j \in DOMAIN depotPaths :
                    StartsWith(ch[top][i].path, depotPaths[j])
             THEN <<top>> ELSE <<>>)
            \o (IF top = 1 THEN <<>> ELSE P4Changes(ch, depotPaths, lo, top - 1))

\* A faulty variant of the definition that follows: the list is not sorted
p4ChangesAsPrinted(ch, depotPaths, lo, hi) == P4Changes(ch, depotPaths, lo, hi)

\* P4Helper.p4ChangesForPaths
p4ChangesForPaths(ch, depotPaths, lo, hi) == SortInts(P4Changes(ch, depotPaths, lo, hi))

\* "p4 describe -s c"
P4Describe(ch, c) == [change |-> c, files |-> ch[c], options |-> <<>>]

\* "p4 changes -m 1 path/...@1,c": the newest changelist <= c under path.
P4LastChangeUnder(ch, path, c) ==
    LET l == P4Changes(ch, <<path>>, 1, c) IN IF l = <<>> THEN 0 ELSE Head(l)

\* "p4 print path#rev": the header record of the file with its content
P4Print(ch, path, rev) ==
    LET c == ChangeOfRev(ch, path, rev)
        k == CHOOSE k \in DOMAIN ch[c] : ch[c][k].path = path
    IN [type |-> ch[c][k].type, data |-> ch[c][k].data, depotFile |-> path]

\* "p4 files p...@c" for each p of paths: the files that exist as of c.
P4FilesAt(ch, paths, c) ==
    {p \in DepotFiles : RevAt(ch, p, c) > 0
                        /\ \E j \in DOMAIN paths : StartsWith(p, paths[j])}

----------------------------------------------------------------------------
(* The DVCS repository (external) and git fast-import.                     *)
(*   git.commits[i]   commit i: first parent, merge parent (0: none)       *)
(*   git.refs         import ref -> its tip commit                         *)
(*   git.ncommits[j]  commit j of refs/notes/git-p4: parent, notes tree    *)
(*                    (commit -> note)                                     *)
(*   git.ntip         tip of refs/notes/git-p4 (0: the ref does not exist) *)
(* A record of the fast-import stream is one of                            *)
(*   [kind |-> "commit", ref, mark, from, merge, files, lines, of,         *)
(*    resolved]                                                            *)
(*   [kind |-> "note", mark, from, target, depotPaths, change, options,    *)
(*    lines]                                                               *)
(*   [kind |-> "checkpoint"],  [kind |-> "tag", name, from]                *)
(* where "of" and "resolved" are not part of the stream: they record the   *)
(* changelist the import loop was processing when it called commit(), and  *)
(* the pair (parentChange, parentBranch) getMergeParentCommit returned.    *)

NoGit == [commits |-> <<>>, refs |-> EmptyMap, ncommits |-> <<>>, ntip |-> 0]

\* Is commit a an ancestor of (or equal to) commit b?
RECURSIVE IsAncestor(_, _, _)
IsAncestor(commits, a, b) ==
    IF b = 0 THEN FALSE
    ELSE IF a = b THEN TRUE
    ELSE IsAncestor(commits, a, commits[b].parent)
         \/ IsAncestor(commits, a, commits[b].merge)

RECURSIVE IsNoteAncestor(_, _, _)
IsNoteAncestor(ncommits, a, b) ==
    IF b = 0 THEN FALSE
    ELSE IF a = b THEN TRUE
    ELSE IsNoteAncestor(ncommits, a, ncommits[b].parent)

\* The state of one fast-import process: the objects it has written, its
\* marks, and the tips of the branches it has committed to.
NewSession(g) == [ntip |-> 0, g |-> g, marks |-> EmptyMap, tips |-> EmptyMap, ntouched |-> FALSE]

\* fast-import updates a ref only if the new tip contains the old one.
UpdateRefs(fi) ==
    LET g == fi.g
        ok(r) == r \notin DOMAIN g.refs \/ IsAncestor(g.commits, g.refs[r], fi.tips[r])
        refs == [r \in (DOMAIN g.refs) \cup {r \in DOMAIN fi.tips : ok(r)} |->
                    IF r \in DOMAIN fi.tips /\ ok(r) THEN fi.tips[r] ELSE g.refs[r]]
        ntip == IF fi.ntouched /\ (g.ntip = 0 \/ IsNoteAncestor(g.ncommits, g.ntip, fi.ntip))
                THEN fi.ntip ELSE g.ntip
    IN [fi EXCEPT !.g = [g EXCEPT !.refs = refs, !.ntip = ntip]]

\* A merge parent in the stream: a mark, or a commit named by expression.
MergeId(fi, m) ==
    IF m = <<>> THEN 0
    ELSE IF m[1] = "mark" THEN (IF m[2] \in DOMAIN fi.marks THEN fi.marks[m[2]] ELSE 0)
    ELSE m[2]

\* fast-import reads one record.  A commit without "from" continues the
\* branch if this process has committed to it before, and is a root commit
\* otherwise.
FastImportRecord(fi, rec) ==
    IF rec.kind = "checkpoint" THEN UpdateRefs(fi)
    ELSE IF rec.kind = "commit" THEN
        LET id == Len(fi.g.commits) + 1
            parent == IF rec.from # 0 THEN rec.from
                      ELSE IF rec.ref \in DOMAIN fi.tips THEN fi.tips[rec.ref]
                      ELSE 0
            c == [parent |-> parent, merge |-> MergeId(fi, rec.merge)]
        IN [fi EXCEPT !.g.commits = Append(@, c),
                      !.marks = Put(@, rec.mark, id),
                      !.tips = Put(@, rec.ref, id)]
    ELSE IF rec.kind = "note" THEN
        LET id == Len(fi.g.ncommits) + 1
            parent == IF rec.from # 0 THEN rec.from
                      ELSE IF fi.ntouched THEN fi.ntip
                      ELSE 0
            tree == IF parent = 0 THEN EmptyMap ELSE fi.g.ncommits[parent].tree
            note == [depotPaths |-> rec.depotPaths, change |-> rec.change,
                     options |-> rec.options]
            n == [parent |-> parent,
                  tree |-> IF rec.target \in DOMAIN fi.marks
                           THEN Put(tree, fi.marks[rec.target], note) ELSE tree]
        IN [fi EXCEPT !.g.ncommits = Append(@, n), !.ntip = id, !.ntouched = TRUE]
    ELSE fi

RECURSIVE FastImportFrom(_, _, _)
FastImportFrom(fi, stream, i) ==
    IF i > Len(stream) THEN fi
    ELSE FastImportFrom(FastImportRecord(fi, stream[i]), stream, i + 1)

\* The repository after fast-import has read the whole stream and exited.
FastImport(g, stream) == UpdateRefs(FastImportFrom(NewSession(g), stream, 1)).g

\* Position of the last checkpoint in the stream (0: none).
RECURSIVE LastCheckpoint(_, _)
LastCheckpoint(stream, i) ==
    IF i = 0 THEN 0
    ELSE IF stream[i].kind = "checkpoint" THEN i
    ELSE LastCheckpoint(stream, i - 1)

\* The repository as a git command sees it while fast-import is running:
\* the refs are those of the last checkpoint.
GitView(g, stream) ==
    FastImport(g, SubSeq(stream, 1, LastCheckpoint(stream, Len(stream))))

\* fast-import is a process of its own that reads the stream from a pipe:
\* when the command looks at the repository, fast-import has read all but
\* the last env.lag records that were written, and the refs and notes are
\* those of the last checkpoint it has read.
DriverRead(env, st) ==
    IF Len(st.gitStream) > env.lag THEN Len(st.gitStream) - env.lag ELSE 0
Persisted(env, st) == LastCheckpoint(st.gitStream, DriverRead(env, st))
DriverView(env, st) == FastImport(env.g, SubSeq(st.gitStream, 1, Persisted(env, st)))

\* The command looks up a commit in the repository: the number of records
\* written so far, and the number of records the repository shows
Looked(env, st, did) ==
    IF did THEN [st EXCEPT !.lookups = Append(@, [written |-> Len(st.gitStream),
                                                  persisted |-> Persisted(env, st)])]
    ELSE st

\* The notes tree at the tip of refs/notes/git-p4.
NotesOf(g) == IF g.ntip = 0 THEN EmptyMap ELSE g.ncommits[g.ntip].tree

\* extractSettingsFromNotes(commit): the settings of the commit's note; a
\* commit without a note (or no commit: 0) gives the empty dict.
extractSettingsFromNotes(g, commit) ==
    IF commit \in DOMAIN NotesOf(g) THEN NotesOf(g)[commit] ELSE EmptyMap

\* gitBranchExists(ref) and parseRevision(ref)  (0 for "")
gitBranchExists(g, ref) == ref \in DOMAIN g.refs
parseRevision(g, ref) == IF gitBranchExists(g, ref) THEN g.refs[ref] ELSE 0

\* p4BranchesInGit(): the names under refs/remotes/p4/ -> their tips
p4BranchesInGit(g) ==
    LET names == {StripPrefix(r, getRefsPrefix) : r \in DOMAIN g.refs}
    IN [b \in names |-> g.refs[getRefsPrefix \o b]]

\* commit~n: the n-th first-parent ancestor (0: there is none)
RECURSIVE NthParent(_, _, _)
NthParent(g, commit, n) ==
    IF commit = 0 \/ n = 0 THEN commit
    ELSE NthParent(g, g.commits[commit].parent, n - 1)

----------------------------------------------------------------------------
(* P4Sync: helpers of the import pipeline.  In the operators below         *)
(*   env  is what the external processes hold: env.g the repository as it  *)
(*        was when the run started, env.d the depot;                       *)
(*   st   is the P4Sync object (self).                                     *)
(* A dict or set of branch names is iterated in the order st.order.        *)

Keys(st, m) == Filter(st.order, DOMAIN m)
Members(st, set) == Filter(st.order, set)

P4Sync_delete_actions == {"delete", "move/delete", "purge"}
P4Sync_merge_actions == {"branch", "integrate"}

\* "p4 filelog -i -h -m 2 path@c": one record per file of the history.  A
\* file created by branching in c is followed by the record of its source,
\* as it was before c; a file merged into in c names its source in
\* how0,0 / file0,0.
P4Filelog(ch, path, c) ==
    LET last == LastChangeOf(ch, path, c)
        e == IF last = 0 THEN <<>>
             ELSE LET i == CHOOSE i \in DOMAIN ch[last] : ch[last][i].path = path
                  IN <<ch[last][i]>>
    IN IF e = <<>> THEN <<>>
       ELSE IF e[1].action = "branch"
       THEN << [depotFile |-> path, change0 |-> last, how |-> "branch from", file |-> e[1].src],
               [depotFile |-> e[1].src, change0 |-> LastChangeOf(ch, e[1].src, last - 1),
                how |-> "", file |-> <<>>] >>
       ELSE IF e[1].action = "integrate"
       THEN << [depotFile |-> path, change0 |-> last, how |-> "merge from", file |-> e[1].src] >>
       ELSE << [depotFile |-> path, change0 |-> last, how |-> "", file |-> <<>>] >>

\* The variant that takes half of the files for a majority
isMergeCommitFromHalf(files) ==
    Cardinality({i \in DOMAIN files : files[i].action \in P4Sync_merge_actions})
        >= (Len(files) \div 2)

\* P4Sync.isMergeCommit: i > len(files) / 2, an integer division
isMergeCommit(files) ==
    Cardinality({i \in DOMAIN files : files[i].action \in P4Sync_merge_actions})
        > (Len(files) \div 2)

\* P4Sync.stripRepoPath: every prefix that matches what is left is cut off,
\* in list order
RECURSIVE StripEach(_, _)
StripEach(path, prefixes) ==
    IF prefixes = <<>> THEN path
    ELSE StripEach(IF StartsWith(path, Head(prefixes))
                   THEN StripPrefix(path, Head(prefixes)) ELSE path,
                   Tail(prefixes))

\* re.sub("^(//[^/]+/).*", r'\1', p): "//depot/" of "//depot/a/b"
RECURSIVE UpToSlash(_, _)
UpToSlash(p, i) == IF i > Len(p) THEN p
                   ELSE IF p[i] = "/" THEN SubSeq(p, 1, i) ELSE UpToSlash(p, i + 1)

DepotOfPath(p) == IF StartsWith(p, <<"/", "/">>) /\ Len(p) > 2 /\ p[3] # "/"
                     /\ \E i \in 4..Len(p) : p[i] = "/"
                  THEN UpToSlash(p, 4) ELSE p

\* urllib.unquote on the codes that p4 writes for @, #, * and %
HexCodes == { <<"4", "0">>, <<"2", "3">>, <<"2", "A">>, <<"2", "5">> }

HexChar(code) == IF code = <<"4", "0">> THEN "@"
                 ELSE IF code = <<"2", "3">> THEN "#"
                 ELSE IF code = <<"2", "A">> THEN "*"
                 ELSE "%"

RECURSIVE UrlUnquote(_)
UrlUnquote(s) ==
    IF s = <<>> THEN <<>>
    ELSE IF Head(s) = "%" /\ Len(s) >= 3 /\ SubSeq(s, 2, 3) \in HexCodes
    THEN <<HexChar(SubSeq(s, 2, 3))>> \o UrlUnquote(SubSeq(s, 4, Len(s)))
    ELSE <<Head(s)>> \o UrlUnquote(Tail(s))

stripRepoPath(st, path, prefixes) ==
    IF st.keepRepoPath THEN UrlUnquote(StripEach(path, <<DepotOfPath(prefixes[1])>>))
    ELSE UrlUnquote(StripEach(path, prefixes))

\* The first element of list l that is a prefix of s (<<>>: none), as in
\*   for x in l: if s.startswith(x): ... break
RECURSIVE FirstPrefix(_, _)
FirstPrefix(s, l) == IF l = <<>> THEN <<>>
                     ELSE IF StartsWith(s, Head(l)) THEN <<Head(l)>>
                     ELSE FirstPrefix(s, Tail(l))

\* The tree filters of the model (external programs): what each writes for
\* one line of its input.  "" is no filter; "dropF" and "dropG" write an
\* empty line for a file named f or g; "renameG" renames a file named g to n.
TreeFilters == {"", "dropF", "dropG", "renameG"}

TreeFilterLine(filter, line) ==
    IF filter = "dropF" /\ EndsWith(line, <<"/", "f">>) THEN <<>>
    ELSE IF filter = "dropG" /\ EndsWith(line, <<"/", "g">>) THEN <<>>
    ELSE IF filter = "renameG" /\ EndsWith(line, <<"/", "g">>)
    THEN SubSeq(line, 1, Len(line) - 1) \o <<"n">>
    ELSE line

\* output.rstrip() on the lines of the output: the empty lines at the end
\* are gone
RECURSIVE RStrip(_)
RStrip(lines) ==
    IF lines # <<>> /\ lines[Len(lines)] = <<>> THEN RStrip(SubSeq(lines, 1, Len(lines) - 1))
    ELSE lines

\* P4Sync.applyFilter on one path: "if not filter: return path"
applyFilter(filter, path) == IF filter = "" THEN path ELSE TreeFilterLine(filter, path)

\* self.applyFilter(self.treeFilter, filesString).split('\n'), filesString
\* being the paths, each followed by a newline
FilteredFiles(filter, paths) ==
    IF filter = "" THEN Append(paths, <<>>)
    ELSE IF RStrip([i \in DOMAIN paths |-> TreeFilterLine(filter, paths[i])]) = <<>>
    THEN << <<>> >>
    ELSE RStrip([i \in DOMAIN paths |-> TreeFilterLine(filter, paths[i])])

\* The file entries of a change description that lie under depotPaths
FilesUnder(st, details) ==
    LET under(f) == \E j \in DOMAIN st.depotPaths : StartsWith(f.path, st.depotPaths[j])
        fs == SelectSeq(details.files, under)
    IN [i \in DOMAIN fs |->
          [path |-> fs[i].path, type |-> fs[i].type, rev |-> fs[i].rev,
           action |-> fs[i].action]]

\* f["targetPath"] = file
WithTargetPath(f, file) ==
    [path |-> f.path, type |-> f.type, rev |-> f.rev, action |-> f.action,
     targetPath |-> file]

\* The loop of extractFilesFromCommit: i counts every line, and a line that
\* is not empty gives its path to tmpFiles[i]
ExtractLoop(tmpFiles, filteredFiles) ==
    LET kept(i) == filteredFiles[i] # <<>>
        idx == SelectSeq([i \in DOMAIN filteredFiles |-> i], kept)
    IN [k \in DOMAIN idx |-> WithTargetPath(tmpFiles[idx[k]], filteredFiles[idx[k]])]

\* The loop of splitFilesIntoBranches: i counts the lines that are not
\* empty, and such a line gives its path to files[i]
SplitLoop(files, filteredFiles) ==
    LET kept(line) == line # <<>>
        lines == SelectSeq(filteredFiles, kept)
    IN [k \in DOMAIN lines |-> WithTargetPath(files[k], lines[k])]

\* The paths of file entries
PathsOf(files) == [i \in DOMAIN files |-> files[i].path]

\* P4Sync.extractFilesFromCommit (cloneExclude is empty)
extractFilesFromCommit(st, details) ==
    ExtractLoop(FilesUnder(st, details),
                FilteredFiles(st.treeFilter, PathsOf(FilesUnder(st, details))))

\* The branch a file goes to: the first key of knownBranches, in iteration
\* order, such that relPath.startswith(branch + "/")
SplitBranchOf(st, f) ==
    LET relPath == stripRepoPath(st, f.targetPath, st.depotPaths)
        ks == Keys(st, st.knownBranches)
        slashed == [i \in DOMAIN ks |-> ks[i] \o Slash]
        hit == FirstPrefix(relPath, slashed)
    IN IF hit = <<>> THEN <<>> ELSE <<SubSeq(hit[1], 1, Len(hit[1]) - 1)>>

\* P4Sync.splitFilesIntoBranches: branch -> its files of the change
splitFilesIntoBranches(st, details) ==
    LET fs == SplitLoop(FilesUnder(st, details),
                        FilteredFiles(st.treeFilter, PathsOf(FilesUnder(st, details))))
        bs == {b \in DOMAIN st.knownBranches : \E i \in DOMAIN fs : SplitBranchOf(st, fs[i]) = <<b>>}
    IN [b \in bs |-> LET mine(f) == SplitBranchOf(st, f) = <<b>> IN SelectSeq(fs, mine)]

----------------------------------------------------------------------------
(* P4Sync: merge parents, labels and commit().                             *)

\* The loop bound of getGitCommitFromChange and extractLastSettingsFromNotes
MaxAncestors == 65535

\* P4Sync.getGitCommitFromChange: walk "p4/<branch>~n", n = 0, 1, ..., until
\* a commit has no note (or does not exist): None, modelled as 0
RECURSIVE WalkForChange(_, _, _, _)
WalkForChange(g, commit, change, n) ==
    IF n >= MaxAncestors THEN 0
    ELSE LET settings == extractSettingsFromNotes(g, commit)
         IN IF settings = EmptyMap THEN 0
            ELSE IF settings.change = change THEN commit
            ELSE WalkForChange(g, g.commits[commit].parent, change, n + 1)

getGitCommitFromChange(g, branch, change) ==
    WalkForChange(g, parseRevision(g, getRefsPrefix \o branch), change, 0)

\* The loop of getMergeParentCommit; acc = <<highestParentChange,
\* parentBranch>>, parentBranch <<>> for None.
\* The source path without the depot path that is a prefix of it
MergeParentPath(tmpBranch, dp) ==
    IF dp = <<>> THEN tmpBranch ELSE StripPrefix(tmpBranch, dp[1])

\* "for branch in self.createdBranches: if tmpBranch.startswith(branch)",
\* hit being the first such branch
MergeParentBranch(acc, hit) ==
    IF hit = <<>> THEN acc[2]
    ELSE IF hit[1] # acc[2] /\ acc[2] # <<>> THEN acc[2]
    ELSE hit[1]

\* The rest of a round once the source file and its change are known
MergeParentSource(st, acc, tmpBranch, newChange) ==
    << IF newChange > acc[1] THEN newChange ELSE acc[1],
       MergeParentBranch(acc, FirstPrefix(
           MergeParentPath(tmpBranch, FirstPrefix(tmpBranch, st.depotPaths)),
           Members(st, st.createdBranches))) >>

\* One round, filelog being the answer of "p4 filelog" for the file
MergeParentFilelog(env, st, acc, filelog, changeNo) ==
    IF Len(filelog) >= 2
    THEN MergeParentSource(st, acc, applyFilter(st.treeFilter, filelog[2].depotFile),
                           filelog[2].change0)
    ELSE IF Len(filelog) >= 1 /\ filelog[1].how = "merge from"
    THEN MergeParentSource(st, acc, applyFilter(st.treeFilter, filelog[1].file),
             P4Filelog(env.d.changes, filelog[1].file, changeNo)[1].change0)
    ELSE acc

MergeParentStep(env, st, acc, info, changeNo) ==
    MergeParentFilelog(env, st, acc, P4Filelog(env.d.changes, info.path, changeNo),
                       changeNo)

RECURSIVE MergeParentLoop(_, _, _, _, _)
MergeParentLoop(env, st, acc, files, changeNo) ==
    IF files = <<>> THEN acc
    ELSE MergeParentLoop(env, st, MergeParentStep(env, st, acc, Head(files), changeNo),
                         Tail(files), changeNo)

\* P4Sync.getMergeParentCommit: (highestParentChange, parentBranch)
getMergeParentCommit(env, st, files, changeNo) ==
    MergeParentLoop(env, st, <<0, <<>> >>, files, changeNo)

\* P4Sync.getLabels: newest changelist of the label's files -> the label
DepotFileOrder == <<BF, MainF, MainG>>

RECURSIVE GetLabelsLoop(_, _, _, _)
GetLabelsLoop(env, st, labels, acc) ==
    IF labels = <<>> THEN acc
    ELSE LET l == Head(labels)
             mine == {p \in DOMAIN l.revs :
                        \E j \in DOMAIN st.depotPaths : StartsWith(p, st.depotPaths[j])}
             revisions == [p \in mine |-> l.revs[p]]
             newest == SeqMax([i \in 1..Len(DepotFileOrder) |->
                                 IF DepotFileOrder[i] \in mine
                                 THEN ChangeOfRev(env.d.changes, DepotFileOrder[i],
                                                  l.revs[DepotFileOrder[i]])
                                 ELSE 0])
         IN GetLabelsLoop(env, st, Tail(labels),
                          IF mine = {} THEN acc
                          ELSE Put(acc, newest, [revisions |-> revisions, label |-> l.name,
                                                 Views |-> l.views]))

getLabels(env, st) == [st EXCEPT !.labels = GetLabelsLoop(env, st, env.d.labels, EmptyMap)]

\* P4Sync.getFilesForLabel: the files of the label's views as of the change,
\* without their depot path (the one-entry cache gives the same list)
getFilesForLabel(env, st, label, change) ==
    LET views == [i \in DOMAIN label.Views |->
                     SubSeq(label.Views[i], 1, Len(label.Views[i]) - 3)]
        at == P4FilesAt(env.d.changes, views, change)
        listed == Filter(DepotFileOrder, at)
        files == IF st.treeFilter = "" THEN listed
                 ELSE RStrip([i \in DOMAIN listed |-> TreeFilterLine(st.treeFilter, listed[i])])
    IN [i \in DOMAIN files |->
          LET d == FirstPrefix(files[i], st.depotPaths)
          IN IF d = <<>> THEN files[i] ELSE StripPrefix(files[i], d[1])]

\* cleanedFiles == labelRevisions compares a list with a dict: in Python
\* that is False whatever they hold
PyListEqualsDict(l, d) == FALSE

\* P4Sync.commitLabel.  st.labelLog records what was done for the label:
\* "tag", "warn" (a mismatch was printed) or "none", with len(cleanedFiles)
\* and len(labelRevisions).
commitLabel(env, st, details, branch, change) ==
    IF change \notin DOMAIN st.labels THEN st
    ELSE LET localBranch == StripPrefix(branch, getRefsPrefix)
             label == st.labels[change]
             files == getFilesForLabel(env, st, label, change)
             onBranch(f) == StartsWith(f, localBranch)
             cleanedFiles == SelectSeq(files, onBranch)
             log(what) == Append(st.labelLog, [change |-> change, did |-> what,
                                               branch |-> branch, label |-> label.label,
                                               onBranch |-> Len(cleanedFiles),
                                               inLabel |-> Cardinality(DOMAIN label.revisions)])
         IN IF Len(cleanedFiles) = 0 THEN [st EXCEPT !.labelLog = log("none")]
            ELSE IF Len(cleanedFiles) = Cardinality(DOMAIN label.revisions) \/ st.fuzzyTags
            THEN IF PyListEqualsDict(cleanedFiles, label.revisions) \/ st.fuzzyTags
                 THEN [st EXCEPT !.gitStream = Append(@,
                          [kind |-> "tag",
                           from |-> branch,
                           name |-> IF st.detectBranches THEN <<localBranch, label.label>>
                                    ELSE <<label.label>>]),
                        !.labelLog = log("tag")]
                 ELSE [st EXCEPT !.labelLog = log("warn")]
            ELSE [st EXCEPT !.labelLog = log("warn")]

----------------------------------------------------------------------------
(* P4FileReader and the file lines of commit().  The content of a file is  *)
(* a sequence of tokens: "$", ":", a keyword name, "\n", or other text.     *)

UnicodeType == <<"u", "n", "i", "c", "o", "d", "e">>
BinaryType == <<"b", "i", "n", "a", "r", "y">>
Utf16Type == <<"u", "t", "f", "1", "6">>
SymlinkType == <<"s", "y", "m", "l", "i", "n", "k">>
AppleType == <<"a", "p", "p", "l", "e">>

\* ('text+ko', 'unicode+ko', 'binary+ko', 'utf16+ko')
KoTypes == {b \o <<"+", "k", "o">> : b \in {TextType, UnicodeType, BinaryType, Utf16Type}}

\* ('text+k', 'ktext', 'kxtext', 'unicode+k', 'binary+k', 'utf16+k')
KTypes == {b \o <<"+", "k">> : b \in {TextType, UnicodeType, BinaryType, Utf16Type}}
          \cup {<<"k">> \o TextType, <<"k", "x">> \o TextType}

\* (?i)(Id|Header), written in the two spellings the model tells apart
KoKeywords == {"Id", "Header", "id", "header"}

\* (Id|Header|Author|Date|DateTime|Change|File|Revision)
KKeywords == {"Id", "Header", "Author", "Date", "DateTime", "Change", "File", "Revision"}

\* The end of the match of \$(keywords):[^stops]*\$ at the start of text
\* (0: no match)
KeywordMatch(text, keywords, stops) ==
    IF Len(text) >= 4 /\ text[1] = "$" /\ text[2] \in keywords /\ text[3] = ":"
       /\ \E j \in 4..Len(text) : text[j] = "$" /\ \A i \in 4..(j - 1) : text[i] \notin stops
    THEN CHOOSE j \in 4..Len(text) : text[j] = "$" /\ \A i \in 4..(j - 1) : text[i] \notin stops
    ELSE 0

\* re.sub(pattern, r'$\1$', text)
RECURSIVE SubKeywords(_, _, _)
SubKeywordsAt(text, keywords, stops, end) ==
    IF end > 0
    THEN <<"$", text[2], "$">> \o SubKeywords(SubSeq(text, end + 1, Len(text)), keywords, stops)
    ELSE <<Head(text)>> \o SubKeywords(Tail(text), keywords, stops)

SubKeywords(text, keywords, stops) ==
    IF text = <<>> THEN <<>>
    ELSE SubKeywordsAt(text, keywords, stops, KeywordMatch(text, keywords, stops))

\* P4FileReader.next: the keywords of the text are masked by file type
MaskKeywords(type, text) ==
    IF type \in KoTypes THEN SubKeywords(text, KoKeywords, {"$"})
    ELSE IF type \in KTypes THEN SubKeywords(text, KKeywords, {"$", "\n"})
    ELSE text

\* v.find("..."): the position before the first "..." (-1: none), 0-based
FindDots(v) ==
    IF \E i \in 1..(Len(v) - 2) : SubSeq(v, i, i + 2) = <<".", ".", ".">>
    THEN (CHOOSE i \in 1..(Len(v) - 2) :
             /\ SubSeq(v, i, i + 2) = <<".", ".", ".">>
             /\ \A j \in 1..(i - 1) : SubSeq(v, j, j + 2) # <<".", ".", ".">>) - 1
    ELSE -1

\* v[start:index] of a view line, index as v.find gives it
ViewSlice(v, start, index) ==
    IF index >= 0 THEN SubSeq(v, start + 1, index) ELSE SubSeq(v, start + 1, Len(v) - 1)

\* One view line of "p4 client -o": the folder and its signed length (no
\* view line of the model starts with a quote, so start is 0)
ViewDir(v) ==
    LET d == ViewSlice(v, 0, FindDots(v))
    IN IF StartsWith(d, <<"-">>) THEN [dir |-> Tail(d), len |-> 0 - Len(Tail(d))]
       ELSE [dir |-> d, len |-> Len(d)]

Abs(n) == IF n < 0 THEN 0 - n ELSE n

\* temp[v] = ...: a folder that is already in the dict gets the new length
RECURSIVE ViewDict(_, _)
ViewDict(acc, views) ==
    IF views = <<>> THEN acc
    ELSE LET e == ViewDir(Head(views))
             at == {i \in DOMAIN acc : acc[i].dir = e.dir}
         IN ViewDict(IF at = {} THEN Append(acc, e)
                     ELSE [i \in DOMAIN acc |-> IF i \in at THEN e ELSE acc[i]],
                     Tail(views))

\* clientSpecDirs.sort(lambda x, y: abs(y[1]) - abs(x[1])): longest first,
\* a stable sort
RECURSIVE InsertDir(_, _)
InsertDir(e, s) ==
    IF s = <<>> THEN <<e>>
    ELSE IF Abs(Head(s).len) < Abs(e.len) THEN <<e>> \o s
    ELSE <<Head(s)>> \o InsertDir(e, Tail(s))

RECURSIVE SortDirs(_, _)
SortDirs(acc, items) ==
    IF items = <<>> THEN acc ELSE SortDirs(InsertDir(Head(items), acc), Tail(items))

\* P4Sync.getClientSpec: the value of self.clientSpecDirs
getClientSpec(views) == SortDirs(<<>>, ViewDict(<<>>, views))

\* "includeFile and not excludeFile" after the loop over clientSpecDirs,
\* which looks at every entry
ClientSpecIncludes(path, clientSpecDirs) ==
    IF Len(clientSpecDirs) = 0 THEN TRUE
    ELSE /\ \E i \in DOMAIN clientSpecDirs :
              StartsWith(path, clientSpecDirs[i].dir) /\ clientSpecDirs[i].len > 0
         /\ ~\E i \in DOMAIN clientSpecDirs :
               StartsWith(path, clientSpecDirs[i].dir) /\ clientSpecDirs[i].len <= 0

\* P4FileReader.filterClientSpec: self.filesForCommit
filterClientSpec(files, clientSpecDirs) ==
    LET included(f) == ClientSpecIncludes(f.path, clientSpecDirs)
    IN SelectSeq(files, included)

\* self.pathMap[p]: the last file put under its path or its targetPath
PathMap(filesForCommit, p) ==
    LET at == {i \in DOMAIN filesForCommit :
                 filesForCommit[i].path = p \/ filesForCommit[i].targetPath = p}
    IN filesForCommit[CHOOSE i \in at : \A j \in at : j <= i]

\* P4FileReader.next for the printed file f: the record of the path map
\* with the masked content of the file
ReaderNext(env, filesForCommit, f) ==
    [data |-> MaskKeywords(P4Print(env.d.changes, f.path, f.rev).type,
                           P4Print(env.d.changes, f.path, f.rev).data),
     file |-> PathMap(filesForCommit, f.path)]

\* The files P4FileReader yields: those of filesToRead, in order
P4FileReader(env, files, clientSpecDirs) ==
    LET live(f) == f.action \notin {"delete", "purge", "move/delete"}
        filesToRead == SelectSeq(filterClientSpec(files, clientSpecDirs), live)
    IN [i \in DOMAIN filesToRead |->
          ReaderNext(env, filterClientSpec(files, clientSpecDirs), filesToRead[i])]

\* P4Helper.isP4Exec: re.search(r"(^[cku]?x)|\+.*x", kind)
isP4Exec(kind) ==
    \/ Len(kind) >= 1 /\ kind[1] = "x"
    \/ Len(kind) >= 2 /\ kind[1] \in {"c", "k", "u"} /\ kind[2] = "x"
    \/ \E i, j \in DOMAIN kind : i < j /\ kind[i] = "+" /\ kind[j] = "x"

\* Faulty variant of the definition that follows: every file gets mode 644
FileModePlain(type) == "644"

\* The mode of the M line of a file
FileMode(type) ==
    IF isP4Exec(type) THEN "755"
    ELSE IF type = SymlinkType THEN "120000"
    ELSE "644"

\* The content of the M line: a symlink loses the newline that ends it, a
\* binary file that is no picture is emptied
FileData(f, data) ==
    LET d1 == IF ~isP4Exec(f.type) /\ f.type = SymlinkType
              THEN SubSeq(data, 1, Len(data) - 1) ELSE data
    IN IF EndsWith(f.type, BinaryType) THEN <<>> ELSE d1

\* The line commit() writes for a file the reader yields (<<>>: none).
\* depotFile and rev are not part of the line: they record the file entry
\* the line was written for.
ReadLine(st, y, branchPrefixes) ==
    IF y.file.type = AppleType THEN <<>>
    ELSE IF y.file.action \in P4Sync_delete_actions
    THEN << [path |-> stripRepoPath(st, y.file.targetPath, branchPrefixes), data |-> <<>>,
             rev |-> y.file.rev, depotFile |-> y.file.path, mode |-> "", op |-> "D"] >>
    ELSE << [path |-> stripRepoPath(st, y.file.targetPath, branchPrefixes), data |-> FileData(y.file, y.data),
             rev |-> y.file.rev, depotFile |-> y.file.path,
             mode |-> FileMode(y.file.type), op |-> "M"] >>

RECURSIVE ReadLines(_, _, _)
ReadLines(st, ys, branchPrefixes) ==
    IF ys = <<>> THEN <<>>
    ELSE ReadLine(st, Head(ys), branchPrefixes) \o ReadLines(st, Tail(ys), branchPrefixes)

\* The variant without the second loop of commit()
DeleteLinesNone(st, new_files, branchPrefixes) == <<>>

\* The second loop of commit(): a D line for each deleted file that the
\* client spec includes by its targetPath
DeleteLines(st, new_files, branchPrefixes) ==
    LET dead(f) == /\ f.action \in P4Sync_delete_actions
                   /\ ClientSpecIncludes(f.targetPath, st.clientSpecDirs)
        ds == SelectSeq(new_files, dead)
    IN [i \in DOMAIN ds |->
          [path |-> stripRepoPath(st, ds[i].targetPath, branchPrefixes), data |-> <<>>,
           rev |-> ds[i].rev, depotFile |-> ds[i].path, mode |-> "", op |-> "D"]]

\* The M and D lines of a commit
FileLines(env, st, new_files, branchPrefixes) ==
    ReadLines(st, P4FileReader(env, new_files, st.clientSpecDirs), branchPrefixes)
    \o DeleteLines(st, new_files, branchPrefixes)

\* "merge <commit>" for a commit found by getGitCommitFromChange (0: None)
MergeCommitLine(c) == IF c = 0 THEN <<>> ELSE <<"commit", c>>

\* The merge line for the parent change and branch that
\* getMergeParentCommit returned
MergeLineFor(env, st, parentChange, parentBranch) ==
    IF parentBranch = <<>> THEN <<>>
    ELSE IF parentBranch \in DOMAIN st.changeListCommits
            /\ parentChange \in DOMAIN st.changeListCommits[parentBranch]
    THEN <<"mark", st.changeListCommits[parentBranch][parentChange]>>
    ELSE MergeCommitLine(getGitCommitFromChange(DriverView(env, st),
                                                parentBranch, parentChange))

MergeLineOf(env, st, pc2) == MergeLineFor(env, st, pc2[1], pc2[2])

\* The merge line of a merge commit (<<>>: none)
\* Faulty variants of the three definitions that follow: the note records
\* the mark counter as its change, the paths of the object whatever the
\* branch, and annotates its own mark
NoteChangeOfMark(st, details) == st.markCounter
NotePathsOfObject(st, branchPrefixes) == st.depotPaths
NoteTargetOfNote(st) == st.markCounter + 1

\* The change number the note records: details["change"]
NoteChange(st, details) == details.change

\* The mark the note annotates: "N inline :%s" % self.markCounter
NoteTarget(st) == st.markCounter

\* The depot paths the note records: ','.join(branchPrefixes)
NotePaths(st, branchPrefixes) == branchPrefixes

\* One line of the fast-import stream: its keyword, and the number it
\* carries (the mark of "mark :N" and "N inline :N", the position of a
\* file line among the file lines, 0 otherwise)
Line(k, n) == [k |-> k, n |-> n]

\* The variant that writes the merge line before the from line
CommitLinesMergeFirst(mark, parent, merge, files) ==
    << Line("commit", 0), Line("mark", mark), Line("committer", 0), Line("data", 0) >>
    \o (IF merge # <<>> THEN << Line("merge", 0) >> ELSE <<>>)
    \o (IF parent # 0 THEN << Line("from", 0) >> ELSE <<>>)
    \o [i \in DOMAIN files |-> Line(files[i].op, i)]
    \o << Line("", 0) >>

\* The lines commit() writes for the commit, in the order of its writes:
\* "commit", "mark", "committer", the message, "from" if parent, "merge" if
\* a second parent was found, the file lines of the two loops, a blank line
CommitLines(mark, parent, merge, files) ==
    << Line("commit", 0), Line("mark", mark), Line("committer", 0), Line("data", 0) >>
    \o (IF parent # 0 THEN << Line("from", 0) >> ELSE <<>>)
    \o (IF merge # <<>> THEN << Line("merge", 0) >> ELSE <<>>)
    \o [i \in DOMAIN files |-> Line(files[i].op, i)]
    \o << Line("", 0) >>

\* The lines commit() writes for the note of the commit
NoteLines(mark, noteParent) ==
    << Line("commit", 0), Line("mark", mark + 1), Line("committer", 0), Line("data", 0) >>
    \o (IF noteParent # 0 THEN << Line("from", 0) >> ELSE <<>>)
    \o << Line("N", mark), Line("data", 0) >>

\* The commit as the stream holds it
CommitRecord(st, branch, parent, resolved, merge, files) ==
    [files |-> files, merge |-> merge, kind |-> "commit", from |-> parent,
     ref |-> branch, mark |-> st.markCounter, lines |-> CommitLines(st.markCounter, parent, merge, files),
     resolved |-> resolved, of |-> st.consuming]

\* The commit whose merge line is written for the pair (parentChange,
\* parentBranch) of getMergeParentCommit (<<0, <<>> >>: no merge commit)
MergeRecord(env, st1, st, branch, parent, resolved, files) ==
    CommitRecord(st, branch, parent, resolved, MergeLineOf(env, st1, resolved), files)

\* The merge parent is looked up in the repository when it is resolved to
\* a branch and changeListCommits does not hold it
MergeLooksUp(st, resolved) ==
    /\ resolved[2] # <<>>
    /\ ~ ( /\ resolved[2] \in DOMAIN st.changeListCommits
           /\ resolved[1] \in DOMAIN st.changeListCommits[resolved[2]] )

\* The variant that counts one mark for the commit and its note
CommitWrittenOneMark(env, st1, rec, note, localBranch, commits) ==
    [Looked(env, st1, MergeLooksUp(st1, rec.resolved)) EXCEPT
        !.gitStream = @ \o <<rec, note>>,
        !.changeListCommits = Put(@, localBranch, commits),
        !.markCounter = @ + 1]

\* The object after the commit and its note are written; commits is the
\* new entry of changeListCommits for the branch
CommitWritten(env, st1, rec, note, localBranch, commits) ==
    [Looked(env, st1, MergeLooksUp(st1, rec.resolved)) EXCEPT
        !.gitStream = @ \o <<rec, note>>,
        !.changeListCommits = Put(@, localBranch, commits),
        !.markCounter = @ + 2]

\* P4Sync.commit
commit(env, st, details, files, branch, branchPrefixes, parent, noteParent) ==
    IF Len(files) = 0 THEN st
    ELSE
    LET change == details.change
        filteredBranchPrefixes == [j \in DOMAIN branchPrefixes |->
                                      applyFilter(st.treeFilter, branchPrefixes[j])]
        inPrefix(f) == \E j \in DOMAIN filteredBranchPrefixes :
                          StartsWith(f.targetPath, filteredBranchPrefixes[j])
        new_files == SelectSeq(files, inPrefix)
        isMerge == st.detectBranches /\ isMergeCommit(new_files)
        st1 == IF isMerge THEN [st EXCEPT !.gitStream = Append(@, [kind |-> "checkpoint"])]
               ELSE st
        rec == MergeRecord(env, st1, st, branch, parent,
                           IF isMerge THEN getMergeParentCommit(env, st1, new_files, change)
                           ELSE <<0, <<>> >>,
                           FileLines(env, st, new_files, branchPrefixes))
        note == [depotPaths |-> NotePaths(st, branchPrefixes),
                 change |-> NoteChange(st, details),
                 options |-> details.options,
                 kind |-> "note",
                 from |-> noteParent,
                 mark |-> st.markCounter + 1,
                 target |-> NoteTarget(st),
                 lines |-> NoteLines(st.markCounter, noteParent)]
        localBranch == StripPrefix(branch, getRefsPrefix)
        old == IF localBranch \in DOMAIN st.changeListCommits
               THEN st.changeListCommits[localBranch] ELSE EmptyMap
        st2 == CommitWritten(env, st1, rec, note, localBranch, Put(old, change, st.markCounter))
    IN IF ~st.detectBranches THEN commitLabel(env, st2, details, branch, change) ELSE st2

----------------------------------------------------------------------------
(* P4Sync: the branch mapping.                                             *)

\* re.sub("^([^/]+)/.*", r'\1', branch)
FirstComponent(b) ==
    IF \E i \in 2..Len(b) : b[i] = "/" /\ \A j \in 1..(i - 1) : b[j] # "/"
    THEN LET i == CHOOSE i \in 2..Len(b) : b[i] = "/" /\ \A j \in 1..(i - 1) : b[j] # "/"
         IN SubSeq(b, 1, i - 1)
    ELSE b

\* One view of a depot branch spec; m = [known, source, lost]
BranchViewStep(dp0, m, view) ==
    LET ok == EndsWith(view[1], <<"/", ".", ".", ".">>) \/ EndsWith(view[2], <<"/", ".", ".", ".">>)
              \/ EndsWith(view[1], <<"/", "*", ".", "*">>) \/ EndsWith(view[2], <<"/", "*", ".", "*">>)
        source == SubSeq(view[1], Len(dp0) + 1, Len(view[1]) - 4)
        destination == SubSeq(view[2], Len(dp0) + 1, Len(view[2]) - 4)
    IN IF ~ok \/ ~(StartsWith(view[1], dp0) /\ StartsWith(view[2], dp0)) THEN m
       ELSE IF destination \in DOMAIN m.known THEN m
       ELSE [source |-> Put(m.source, source, destination),
             known |-> Put(m.known, destination, source),
             lost |-> (m.lost \ {destination})
                      \cup (IF source \in DOMAIN Put(m.known, destination, source)
                            THEN {} ELSE {source})]

\* One git-p4.branchList entry "source:destination"
BranchConfigStep(m, entry) ==
    LET source == entry[1]
        destination == entry[2]
        known == Put(m.known, destination, source)
    IN [source |-> m.source, known |-> known,
        lost |-> (m.lost \ {destination}) \cup (IF source \in DOMAIN known THEN {} ELSE {source})]

RECURSIVE BranchViews(_, _, _)
BranchViews(dp0, m, views) ==
    IF views = <<>> THEN m ELSE BranchViews(dp0, BranchViewStep(dp0, m, Head(views)), Tail(views))

RECURSIVE BranchConfigs(_, _)
BranchConfigs(m, entries) ==
    IF entries = <<>> THEN m ELSE BranchConfigs(BranchConfigStep(m, Head(entries)), Tail(entries))

\* "don't allow nested branches": first over the sources, then over the keys
RECURSIVE PruneSources(_, _)
PruneSources(m, ks) ==
    IF ks = <<>> THEN m
    ELSE LET b == Head(ks)
             tmp == FirstComponent(b)
         IN PruneSources(IF tmp \in DOMAIN m.source /\ tmp # b
                         THEN [m EXCEPT !.known = Remove(@, m.source[b]),
                                        !.source = Remove(@, b)]
                         ELSE m, Tail(ks))

RECURSIVE PruneKnown(_, _)
PruneKnown(known, ks) ==
    IF ks = <<>> THEN known
    ELSE LET b == Head(ks)
             tmp == FirstComponent(b)
         IN PruneKnown(IF tmp \in DOMAIN known /\ tmp # b THEN Remove(known, b) ELSE known,
                       Tail(ks))

\* P4Sync.getBranchMapping: the resulting knownBranches.  order is the
\* iteration order of the dicts, specs the views of the depot's branch
\* specs, config the git-p4.branchList entries.
getBranchMapping(order, dp0, known0, specs, config) ==
    LET m1 == BranchViews(dp0, [source |-> EmptyMap, known |-> known0, lost |-> {}], specs)
        m2 == BranchConfigs(m1, config)
        m3 == [m2 EXCEPT !.known = [b \in (DOMAIN m2.known) \cup m2.lost |->
                                       IF b \in m2.lost THEN b ELSE m2.known[b]]]
        m4 == PruneSources(m3, Filter(order, DOMAIN m3.source))
    IN PruneKnown(m4.known, Filter(order, DOMAIN m4.known))

\* P4Sync.gitRefForBranch (projectName is "" once detectP4Branches has run)
gitRefForBranch(branch) ==
    IF branch = Main THEN getRefsPrefix \o Master
    ELSE IF Len(branch) <= 0 THEN branch
    ELSE getRefsPrefix \o branch

----------------------------------------------------------------------------
(* P4Sync: looking up the commit of a changelist by bisection.             *)

RECURSIVE Ancestors(_, _)
Ancestors(g, c) ==
    IF c = 0 THEN {}
    ELSE {c} \cup Ancestors(g, g.commits[c].parent) \cup Ancestors(g, g.commits[c].merge)

\* "git rev-list --bisect latest ^earliest...": the commit of the range
\* nearest to half-way (0: the range is empty)
RevListBisect(g, latest, excluded) ==
    LET range == Ancestors(g, latest) \ UNION {Ancestors(g, e) : e \in excluded}
        n == Cardinality(range)
        w(c) == Cardinality(Ancestors(g, c) \cap range)
        dist(c) == IF 2 * w(c) >= n THEN 2 * w(c) - n ELSE n - 2 * w(c)
        best == {c \in range : \A o \in range : dist(c) <= dist(o)}
    IN IF range = {} THEN 0 ELSE CHOOSE c \in best : \A o \in best : c <= o

BisectHang == -1
BisectDie == -2

\* P4Sync.gitCommitByP4Change: the commit found, 0 for "", BisectHang when
\* the loop never ends, BisectDie when git or the interpreter raises an error
RECURSIVE Bisect(_, _, _, _)
Bisect(g, latest, excluded, change) ==
    LET nextCommit == RevListBisect(g, latest, excluded)
        settings == extractSettingsFromNotes(g, nextCommit)
    IN IF nextCommit = 0 THEN 0
       ELSE IF settings = EmptyMap THEN BisectDie
       ELSE IF settings.change = change THEN nextCommit
       ELSE IF settings.change < change
            THEN Bisect(g, latest, excluded \cup {nextCommit}, change)
       ELSE IF nextCommit = latest THEN BisectHang
       ELSE Bisect(g, nextCommit, excluded, change)

gitCommitByP4Change(g, ref, change) ==
    IF parseRevision(g, ref) = 0 THEN BisectDie
    ELSE Bisect(g, parseRevision(g, ref), {}, change)

----------------------------------------------------------------------------
(* P4Sync: importChanges and importNewBranch.  st.failed is "" while the   *)
(* command runs, "die" once it has exited with an error and "hang" once it *)
(* is in a loop that never ends; nothing more is written after either.     *)

RECURSIVE CommitLabels(_, _, _, _, _)
CommitLabels(env, st, details, branches, change) ==
    IF branches = <<>> THEN st
    ELSE CommitLabels(env, commitLabel(env, st, details, gitRefForBranch(Head(branches)), change),
                      details, Tail(branches), change)

\* The label part of importChanges with branch detection
LabelsOfChange(env, st, details, change) ==
    LET p4Branches == p4BranchesInGit(DriverView(env, st))
        st1 == CommitLabels(env, st, details, Keys(st, p4Branches), change)
    IN CommitLabels(env, st1, details,
                    Members(st, st.createdBranches \ DOMAIN p4Branches), change)

RECURSIVE importChanges(_, _, _)
RECURSIVE importNewBranch(_, _, _, _)
RECURSIVE ImportBranches(_, _, _, _, _, _)

\* The rounds of "for branch in branches.keys()" of importChanges.
\* After importNewBranch has returned r = [st, ok]:
\* "if self.importNewBranch(...) or parent not in self.createdBranches"
ImportBranchNew(r, parent, fullBranch) ==
    IF r.ok \/ parent \notin r.st.createdBranches
    THEN [r.st EXCEPT !.p4BranchesInGit = Append(@, fullBranch)]
    ELSE r.st

\* The variant that uses the branch's initial parent and keeps it
ImportBranchCommitKept(env, st, description, files, branch, change) ==
    LET ref == gitRefForBranch(branch)
        has == ref \in DOMAIN st.initialParents
    IN IF st.failed # "" THEN st
       ELSE [commit(env,
                    [st EXCEPT !.branch = ref,
                               !.consuming = change],
                    description, files, ref, <<st.depotPaths[1] \o branch \o Slash>>,
                    IF has THEN st.initialParents[ref] ELSE 0, st.initialNoteParent)
             EXCEPT !.initialNoteParent = 0]

\* The commit of the round: the branch's initial parent is used and forgotten
ImportBranchCommit(env, st, description, files, branch, change) ==
    LET ref == gitRefForBranch(branch)
        has == ref \in DOMAIN st.initialParents
    IN IF st.failed # "" THEN st
       ELSE [commit(env,
                    [st EXCEPT !.initialParents = IF has THEN Remove(@, ref) ELSE @,
                               !.branch = ref,
                               !.consuming = change],
                    description, files, ref, <<st.depotPaths[1] \o branch \o Slash>>,
                    IF has THEN st.initialParents[ref] ELSE 0, st.initialNoteParent)
             EXCEPT !.initialNoteParent = 0]

\* One round
ImportBranch(env, st, description, branches, branch, change) ==
    LET isNew == branch \notin st.createdBranches
        st1 == [st EXCEPT !.updatedBranches = @ \cup {branch},
                          !.createdBranches = @ \cup {branch}]
        parent == st.knownBranches[branch]
        fullBranch == branch
        asks == isNew /\ parent # branch /\ fullBranch \notin Range(st.p4BranchesInGit)
    IN ImportBranchCommit(env,
           IF asks THEN ImportBranchNew(importNewBranch(env, st1, branch, change - 1),
                                        parent, fullBranch)
           ELSE st1,
           description, branches[branch], branch, change)

ImportBranches(env, st, description, branches, ks, change) ==
    IF ks = <<>> \/ st.failed # "" THEN st
    ELSE ImportBranches(env, ImportBranch(env, st, description, branches, Head(ks), change),
                        description, branches, Tail(ks), change)

\* The rounds of "for change in changes" of importChanges.
\* The labels of the change, once its branches are committed
ImportLabels(env, st, description, change) ==
    IF st.failed # "" THEN st ELSE LabelsOfChange(env, st, description, change)

\* With branch detection, branches being the files of the change by branch
ImportSplit(env, st, description, branches, change) ==
    ImportLabels(env,
                 ImportBranches(env, st, description, branches, Keys(st, branches), change),
                 description, change)

\* One round, description being the answer of "p4 describe"
ImportDescribed(env, st, description, change) ==
    IF st.detectBranches
    THEN ImportSplit(env, st, description, splitFilesIntoBranches(st, description), change)
    ELSE [commit(env, [st EXCEPT !.consuming = change], description,
                 extractFilesFromCommit(st, description),
                 st.branch, st.depotPaths, st.initialParent, st.initialNoteParent)
          EXCEPT !.initialParent = 0, !.initialNoteParent = 0]

ImportOneChange(env, st, change) ==
    ImportDescribed(env, st,
        [P4Describe(env.d.changes, change) EXCEPT
            !.options = IF st.keepRepoPath THEN <<"keepRepoPath">> ELSE <<>>],
        change)

\* P4Sync.importChanges (restartImport is not set)
importChanges(env, st, chs) ==
    IF chs = <<>> \/ st.failed # "" THEN st
    ELSE importChanges(env, ImportOneChange(env, st, Head(chs)), Tail(chs))

\* P4Sync.importNewBranch: [st, ok], ok the value it returns.
\* The commit of the source branch the new branch starts from
\* (0: none, BisectDie, BisectHang)
NewBranchParent(g, sourceRef, branchParentChange) ==
    IF branchParentChange = 0 THEN 0
    ELSE gitCommitByP4Change(g, sourceRef, branchParentChange)

\* "if len(gitParent) > 0: self.initialParents[self.gitRefForBranch(branch)]
\* = gitParent"
NewBranchInitialParent(st, branch, gitParent) ==
    IF gitParent = BisectDie THEN [st EXCEPT !.failed = "die"]
    ELSE IF gitParent = BisectHang THEN [st EXCEPT !.failed = "hang"]
    ELSE IF gitParent > 0
    THEN [st EXCEPT !.initialParents = Put(@, gitRefForBranch(branch), gitParent)]
    ELSE st

\* "self.importChanges(changes); return True"
NewBranchChanges(env, st, chs) ==
    IF st.failed # "" THEN [ok |-> FALSE, st |-> st]
    ELSE [ok |-> TRUE, st |-> importChanges(env, st, chs)]

\* After the checkpoint, chs being the changes of the branch
NewBranchFrom(env, st, branch, chs) ==
    IF Len(chs) <= 0 THEN [ok |-> FALSE, st |-> st]
    ELSE NewBranchChanges(env,
             NewBranchInitialParent(
                 Looked(env, st, P4LastChangeUnder(env.d.changes,
                            st.depotPaths[1] \o st.knownBranches[branch] \o Slash,
                            chs[1]) > 0),
                 branch,
                 NewBranchParent(DriverView(env, st),
                     gitRefForBranch(st.knownBranches[branch]),
                     P4LastChangeUnder(env.d.changes,
                         st.depotPaths[1] \o st.knownBranches[branch] \o Slash, chs[1]))),
             chs)

importNewBranch(env, st, branch, maxChange) ==
    NewBranchFrom(env, [st EXCEPT !.gitStream = Append(@, [kind |-> "checkpoint"])],
        branch,
        p4ChangesForPaths(env.d.changes, <<st.depotPaths[1] \o branch \o Slash>>,
                          1, maxChange))

----------------------------------------------------------------------------
(* P4Sync: the object and the steps of run() before the import loop.       *)

\* P4Sync.__init__ with the options of the command line applied.  0 stands
\* for "" where a commit is expected, <<>> for "" as a change range.
P4SyncNew(order, opts) ==
    [depotPaths |-> <<>>,
     gitStream |-> <<>>, lookups |-> <<>>,
     p4BranchesInGit |-> <<>>, order |-> order,
     keepRepoPath |-> FALSE,
     treeFilter |-> opts.treeFilter, knownBranches |-> EmptyMap, branch |-> <<>>,
     createdBranches |-> {}, labels |-> EmptyMap,
     labelLog |-> <<>>, fuzzyTags |-> opts.fuzzyTags, detectBranches |-> opts.detectBranches,
     clientSpecDirs |-> <<>>, changeListCommits |-> EmptyMap,
     markCounter |-> 1, consuming |-> 0,
     initialParents |-> EmptyMap, failed |-> "", initialNoteParent |-> 0,
     updatedBranches |-> {}, initialParent |-> 0, detectLabels |-> opts.detectLabels, changeRange |-> <<>>,
     previousDepotPaths |-> <<>>, revision |-> <<>>,
     todo |-> <<>>, useClientSpec |-> opts.useClientSpec]

\* P4Sync.listExistingP4GitBranches
listExistingP4GitBranches(g, st) ==
    LET branches == p4BranchesInGit(g)
    IN [st EXCEPT !.p4BranchesInGit = Keys(st, branches),
                  !.initialParents = [r \in (DOMAIN @) \cup {getRefsPrefix \o b : b \in DOMAIN branches} |->
                        IF \E b \in DOMAIN branches : r = getRefsPrefix \o b
                        THEN branches[StripPrefix(r, getRefsPrefix)] ELSE @[r]]]

\* The inner loop of CalculateLastImportedP4ChangeList: cur up to the first
\* character in which it differs from prev
CommonPrefix(prev, cur) ==
    LET m == IF Len(cur) < Len(prev) THEN Len(cur) ELSE Len(prev)
        differ == {i \in 1..m : cur[i] # prev[i]}
    IN IF differ = {} THEN SubSeq(cur, 1, m)
       ELSE SubSeq(cur, 1, (CHOOSE i \in differ : \A j \in differ : i <= j) - 1)

ZipCommonPrefix(previous, depotPaths) ==
    [i \in 1..(IF Len(previous) < Len(depotPaths) THEN Len(previous) ELSE Len(depotPaths)) |->
        CommonPrefix(previous[i], depotPaths[i])]

\* sorted() of a list of depot paths.  Every list of depot paths of the model
\* has at most one element, which is sorted as it is.
SortedPaths(l) == l

\* Faulty variant of InitialParent below: the first commit of the command
\* gets no parent
InitialParentNone(g, st) == 0

\* change = int(settings['change']) + 1
NextChange(settings) == settings.change + 1

\* self.initialParent = parseRevision(self.branch)
InitialParent(g, st) == parseRevision(g, st.branch)

\* acc = [p4Change, previous, keepRepoPath]
RECURSIVE LastImportedLoop(_, _, _)
LastImportedLoop(g, acc, branches) ==
    IF branches = <<>> THEN acc
    ELSE LET settings == extractSettingsFromNotes(g, parseRevision(g, getRefsPrefix \o Head(branches)))
             has == settings # EmptyMap
             change == NextChange(settings)
             depotPaths == SortedPaths(settings.depotPaths)
         IN LastImportedLoop(g,
                IF ~has THEN [acc EXCEPT !.keepRepoPath = FALSE]
                ELSE [keepRepoPath |-> "keepRepoPath" \in Range(settings.options),
                      previous |-> IF acc.previous = <<>> THEN depotPaths
                                   ELSE ZipCommonPrefix(acc.previous, depotPaths),
                      p4Change |-> IF change > acc.p4Change THEN change ELSE acc.p4Change],
                Tail(branches))

\* P4Sync.CalculateLastImportedP4ChangeList
CalculateLastImportedP4ChangeList(g, st) ==
    LET acc == LastImportedLoop(g, [keepRepoPath |-> st.keepRepoPath, previous |-> st.previousDepotPaths,
                                    p4Change |-> 0], st.p4BranchesInGit)
        st1 == [st EXCEPT !.previousDepotPaths = acc.previous, !.keepRepoPath = acc.keepRepoPath]
    IN IF acc.p4Change > 0
       THEN [st1 EXCEPT !.depotPaths = SortedPaths(acc.previous),
                        !.changeRange = <<acc.p4Change, HeadRev>>]
       ELSE st1

\* str.find: the first position of character c in p (0: none)
IndexOf(p, c) ==
    IF \E i \in DOMAIN p : p[i] = c
    THEN CHOOSE i \in DOMAIN p : p[i] = c /\ \A j \in 1..(i - 1) : p[j] # c
    ELSE 0

AtAll == <<"@", "a", "l", "l">>
HashHead == <<"#", "h", "e", "a", "d">>
Dots == <<".", ".", ".">>

\* One round of the loop of adjustDepotPaths; acc = [changeRange, revision,
\* newPaths].  Of the "@" suffixes only "@all" and a single revision are
\* given to the command in this model.
AdjustDepotPath(st, acc, p) ==
    LET atIdx == IndexOf(p, "@")
        hashIdx == IndexOf(p, "#")
        suffix == SubSeq(p, atIdx, Len(p))
        p1 == IF atIdx # 0 THEN SubSeq(p, 1, atIdx - 1)
              ELSE IF hashIdx # 0 THEN SubSeq(p, 1, hashIdx - 1)
              ELSE p
        p2 == IF EndsWith(p1, Dots) THEN SubSeq(p1, 1, Len(p1) - 3) ELSE p1
        p3 == IF EndsWith(p2, Slash) THEN p2 ELSE p2 \o Slash
    IN [changeRange |-> IF atIdx # 0 THEN <<>> ELSE acc.changeRange,
        revision |-> IF atIdx # 0 THEN (IF suffix = AtAll THEN acc.revision ELSE suffix)
                     ELSE IF hashIdx # 0 THEN SubSeq(p, hashIdx, Len(p))
                     ELSE IF st.previousDepotPaths = <<>> THEN HashHead
                     ELSE acc.revision,
        newPaths |-> Append(acc.newPaths, p3)]

RECURSIVE AdjustLoop(_, _, _)
AdjustLoop(st, acc, ps) ==
    IF ps = <<>> THEN acc ELSE AdjustLoop(st, AdjustDepotPath(st, acc, Head(ps)), Tail(ps))

\* P4Sync.adjustDepotPaths; the revision it returns is kept in st.revision
adjustDepotPaths(st) ==
    LET acc == AdjustLoop(st, [changeRange |-> st.changeRange, revision |-> <<>>,
                               newPaths |-> <<>>], st.depotPaths)
    IN [st EXCEPT !.depotPaths = acc.newPaths, !.changeRange = acc.changeRange,
                  !.revision = acc.revision]

\* P4Sync.detectP4Branches (there is no origin remote)
detectP4Branches(env, st) ==
    [st EXCEPT !.knownBranches = getBranchMapping(st.order, st.depotPaths[1], @,
                                                  env.d.specs, env.config),
               !.createdBranches = @ \cup Range(st.p4BranchesInGit)]

\* "p4 files p...#head" for each depot path: one record per file, in the
\* order the depot lists them
P4FilesHead(ch, depotPaths) ==
    LET fs == Filter(DepotFileOrder, P4FilesAt(ch, depotPaths, Len(ch)))
    IN [i \in DOMAIN fs |->
          LET c == LastChangeOf(ch, fs[i], Len(ch))
              k == CHOOSE k \in DOMAIN ch[c] : ch[c][k].path = fs[i]
          IN [ch[c][k] EXCEPT !.src = <<>>] @@ [change |-> c]]

\* P4Sync.importHeadRevision (for revision "#head")
importHeadRevision(env, st) ==
    LET infos == P4FilesHead(env.d.changes, st.depotPaths)
        newestRevision == SeqMax([i \in DOMAIN infos |-> infos[i].change])
        live(f) == f.action \notin P4Sync_delete_actions
        kept == SelectSeq(infos, live)
        details == [change |-> newestRevision,
                    files |-> [i \in DOMAIN kept |->
                                 [path |-> kept[i].path, src |-> <<>>,
                                  type |-> kept[i].type, rev |-> kept[i].rev,
                                  action |-> kept[i].action]],
                    options |-> IF st.keepRepoPath THEN <<"keepRepoPath">> ELSE <<>>]
    IN IF newestRevision = 0 THEN [st EXCEPT !.failed = "die"]
       ELSE commit(env, [st EXCEPT !.consuming = 0], details,
                   extractFilesFromCommit(st, details), st.branch, st.depotPaths, 0, 0)

\* P4Sync.run up to the import loop, block by block.
\* "if len(self.p4BranchesInGit) > 1: self.detectBranches = True", then
\* CalculateLastImportedP4ChangeList
RunExisting(g, st) ==
    CalculateLastImportedP4ChangeList(g,
        IF Len(st.p4BranchesInGit) > 1 THEN [st EXCEPT !.detectBranches = TRUE] ELSE st)

\* "if len(args) == 0 or self.detectBranches"
RunBranches(g, st, args) ==
    IF args = <<>> \/ st.detectBranches
    THEN RunExisting(g, listExistingP4GitBranches(g, st))
    ELSE st

\* The initial parents of the first commit and the first note
RunParents(g, st) ==
    [st EXCEPT !.initialParent = IF ~st.detectBranches THEN InitialParent(g, st) ELSE @,
               !.initialNoteParent = g.ntip]

\* The changelists to import: a head revision is imported at once, and
\* otherwise st.todo holds the changelists the loop will walk
RunChanges(env, st) ==
    IF st.revision # <<>> THEN importHeadRevision(env, st)
    ELSE [st EXCEPT !.todo =
             IF st.changeRange = <<>>
             THEN p4ChangesForPaths(env.d.changes, st.depotPaths, 1, HeadRev)
             ELSE p4ChangesForPaths(env.d.changes, st.depotPaths,
                                    st.changeRange[1], st.changeRange[2])]

\* "if self.detectLabels: self.getLabels()"
RunLabels(env, st) == IF st.detectLabels THEN getLabels(env, st) ELSE st

\* "if self.detectBranches: self.detectP4Branches()"
RunDetect(env, st) == IF st.detectBranches THEN detectP4Branches(env, st) ELSE st

\* After adjustDepotPaths has given adjusted: "if not self.depotPaths: exit"
RunAdjusted(env, st, adjusted) ==
    IF adjusted.depotPaths = <<>> THEN [st EXCEPT !.failed = "die"]
    ELSE RunChanges(env, RunDetect(env, RunLabels(env, adjusted)))

\* The depot paths of the command line against those of the repository
RunDepotPaths(env, st, args) ==
    IF ~(Len(args) = 0 /\ st.depotPaths # <<>>)
       /\ st.depotPaths # <<>> /\ st.depotPaths # args /\ ~st.detectBranches
    THEN [st EXCEPT !.failed = "die"]
    ELSE RunAdjusted(env, st,
             adjustDepotPaths(IF Len(args) = 0 /\ st.depotPaths # <<>> THEN st
                              ELSE [st EXCEPT !.depotPaths = SortedPaths(args)]))

\* P4Sync.run up to the import loop: the object, with the changelists the
\* loop will walk in st.todo
RunPrelude(env, order, args, opts) ==
    RunDepotPaths(env,
        RunParents(env.g,
            RunBranches(env.g,
                [P4SyncNew(order, opts) EXCEPT
                    !.branch = getRefsPrefix \o Master,
                    !.clientSpecDirs = IF opts.useClientSpec THEN getClientSpec(env.view)
                                       ELSE <<>>],
                args)),
        args)

----------------------------------------------------------------------------
(* P4Submit and the depot client workspace it drives (external):           *)
(*   client.opened  path -> the action the file is opened for              *)
(*   client.disk    the files present in the workspace directory           *)
(*   client.have    the files of the depot at the synced revision          *)
(*   client.types   file of the depot -> its type at the synced revision   *)
(*   client.otypes  open file -> the type it is open with                  *)
(*   client.log     the depot commands of the commit that is applied        *)
(* w = [c, s, dead] threads the workspace c, the P4Submit object s and     *)
(* whether die() was called through the steps of a method.                 *)

FileN == <<"n">>

Quote == "QUOTE"

DepotPathsKey == <<"d", "e", "p", "o", "t", "-", "p", "a", "t", "h", "s">>
DepotPathKey == <<"d", "e", "p", "o", "t", "-", "p", "a", "t", "h">>
ChangeKey == <<"c", "h", "a", "n", "g", "e">>
OptionsKey == <<"o", "p", "t", "i", "o", "n", "s">>

\* "%s" % n and int(s) for a changelist number
DigitChars == <<"0", "1", "2", "3", "4", "5", "6", "7", "8", "9">>
RECURSIVE IntToStr(_)
IntToStr(n) ==
    IF n < 10 THEN <<DigitChars[n + 1]>>
    ELSE IntToStr(n \div 10) \o <<DigitChars[(n % 10) + 1]>>
RECURSIVE StrToInt(_)
StrToInt(s) ==
    IF s = <<>> THEN 0
    ELSE 10 * StrToInt(SubSeq(s, 1, Len(s) - 1))
         + ((CHOOSE d \in DOMAIN DigitChars : DigitChars[d] = s[Len(s)]) - 1)


NoClient == [change |-> 0, log |-> <<>>, opened |-> EmptyMap, disk |-> {},
             have |-> {}, types |-> EmptyMap, otypes |-> EmptyMap]

\* The modes of "git diff-tree"
Mode000 == <<"0", "0", "0", "0", "0", "0">>
Mode644 == <<"1", "0", "0", "6", "4", "4">>
Mode755 == <<"1", "0", "0", "7", "5", "5">>

\* isModeExec: mode[-3:] == "755"
isModeExec(mode) ==
    Len(mode) >= 3 /\ SubSeq(mode, Len(mode) - 2, Len(mode)) = <<"7", "5", "5">>

isModeExecChanged(src_mode, dst_mode) == isModeExec(src_mode) # isModeExec(dst_mode)

\* One command sent to the depot
Cmd(name, src, file) == [src |-> src, file |-> file, name |-> name]
Logged(c, name, src, file) == [c EXCEPT !.log = Append(@, Cmd(name, src, file))]

\* "p4 edit", "p4 add -f", "p4 delete", "p4 integrate -Dt", "p4 revert": a
\* command that does not apply prints a warning and changes nothing
\* A file is opened with the type it has in the depot, a new file with the
\* type text, the target of an integration with the type of its source.
p4_edit(c, f) ==
    IF f \in DOMAIN c.opened \/ f \notin c.have THEN Logged(c, "edit", <<>>, f)
    ELSE [c EXCEPT !.opened = Put(@, f, "edit"), !.otypes = Put(@, f, c.types[f]),
                   !.log = Append(@, Cmd("edit", <<>>, f))]
p4_add(c, f) ==
    IF f \in DOMAIN c.opened \/ f \in c.have THEN Logged(c, "add", <<>>, f)
    ELSE [c EXCEPT !.opened = Put(@, f, "add"), !.otypes = Put(@, f, TextType),
                   !.log = Append(@, Cmd("add", <<>>, f))]
p4_delete(c, f) ==
    IF f \in DOMAIN c.opened \/ f \notin c.have THEN Logged(c, "delete", <<>>, f)
    ELSE [c EXCEPT !.opened = Put(@, f, "delete"), !.disk = @ \ {f},
                   !.otypes = Put(@, f, c.types[f]),
                   !.log = Append(@, Cmd("delete", <<>>, f))]
p4_integrate(c, src, dst) ==
    IF dst \in DOMAIN c.opened \/ dst \in c.have \/ src \notin c.have
    THEN Logged(c, "integrate", src, dst)
    ELSE [c EXCEPT !.opened = Put(@, dst, "branch"), !.disk = @ \cup {dst},
                   !.otypes = Put(@, dst, c.types[src]),
                   !.log = Append(@, Cmd("integrate", src, dst))]
p4_revert(c, f) ==
    IF f \notin DOMAIN c.opened THEN Logged(c, "revert", <<>>, f)
    ELSE [c EXCEPT !.opened = Remove(@, f),
                   !.disk = IF c.opened[f] = "add" THEN @
                            ELSE IF f \in c.have THEN @ \cup {f} ELSE @ \ {f},
                   !.otypes = Remove(@, f),
                   !.log = Append(@, Cmd("revert", <<>>, f))]

\* "p4 reopen -t": the type "+x" adds the modifier x to the type the file
\* is open with, another type replaces it; a file that is not open is left
\* alone
PlusX(type) ==
    IF isP4Exec(type) THEN type
    ELSE IF \E i \in DOMAIN type : type[i] = "+" THEN type \o <<"x">>
    ELSE type \o <<"+", "x">>
p4_reopen(c, f, p4Type) ==
    IF f \notin DOMAIN c.opened THEN Logged(c, "reopen", <<>>, f)
    ELSE [c EXCEPT !.otypes = Put(@, f, IF p4Type = <<"+", "x">> THEN PlusX(c.otypes[f])
                                        ELSE p4Type),
                   !.log = Append(@, Cmd("reopen", <<>>, f))]

\* "p4 submit -i": refused when nothing is open or a file to send is missing
p4_submit_ok(c) ==
    /\ c.opened # EmptyMap
    /\ \A f \in DOMAIN c.opened : c.opened[f] = "delete" \/ f \in c.disk
p4_submit(c) ==
    [c EXCEPT !.opened = EmptyMap,
              !.have = (@ \cup {f \in DOMAIN c.opened : c.opened[f] # "delete"})
                       \ {f \in DOMAIN c.opened : c.opened[f] = "delete"},
              !.types = [f \in ((DOMAIN c.types)
                                  \cup {g \in DOMAIN c.opened : c.opened[g] # "delete"})
                                 \ {g \in DOMAIN c.opened : c.opened[g] = "delete"} |->
                            IF f \in DOMAIN c.opened THEN c.otypes[f] ELSE c.types[f]],
              !.otypes = EmptyMap,
              !.log = Append(@, Cmd("submit", <<>>, <<>>))]

\* One entry of "git diff-tree -r" as parseDiffTreeEntry returns it: the
\* status, the two paths and the two modes
DiffEntry(status, src, dst, src_mode, dst_mode) ==
    [src |-> src, src_mode |-> src_mode, dst_mode |-> dst_mode, dst |-> dst,
     status |-> status]

FileModes == {Mode644, Mode755}

\* The commits the model submits, as their diff-tree entries
DiffShapes ==
    { <<DiffEntry("M", FileF, FileF, m, n)>> : m, n \in FileModes }
    \cup { <<DiffEntry("A", FileN, FileN, Mode000, n)>> : n \in FileModes }
    \cup { <<DiffEntry("R", FileF, FileN, m, n)>> : m, n \in FileModes }
    \cup { <<DiffEntry("D", FileG, FileG, Mode644, Mode000)>>,
           <<DiffEntry("M", FileF, FileF, Mode644, Mode644),
             DiffEntry("D", FileG, FileG, Mode644, Mode000)>>,
           <<DiffEntry("M", FileF, FileF, Mode644, Mode644),
             DiffEntry("A", FileN, FileN, Mode000, Mode644)>>,
           <<DiffEntry("A", FileN, FileN, Mode000, Mode644),
             DiffEntry("D", FileG, FileG, Mode644, Mode000)>> }

\* P4Helper.integrateFile: integrate, edit, os.unlink(dest)
integrateFile(c, diff) ==
    LET c1 == p4_edit(p4_integrate(c, diff.src, diff.dst), diff.dst)
    IN [c1 EXCEPT !.disk = @ \ {diff.dst}]

\* What a method without a return statement returns
None == <<"None">>

\* p4_system of a command with "-c <clnumber>", of which c1 is the effect:
\* the depot refuses it, and system() dies, when no such changelist is
\* pending
WithCl(w, c1) ==
    IF StrToInt(w.s.clnumber) \in w.c.pending THEN [w EXCEPT !.c = c1]
    ELSE [w EXCEPT !.c.log = c1.log, !.dead = TRUE]

\* P4Submit.integrateFile: the destination is to change its executable bit
\* when the modes of the source and of the destination differ
SubmitIntegrateFile(w, diff) ==
    [w EXCEPT !.c = integrateFile(@, diff),
              !.s.filesToChangeExecBit =
                  IF isModeExecChanged(diff.src_mode, diff.dst_mode)
                  THEN Put(@, diff.dst, diff.dst_mode) ELSE @]

\* P4Shelve.integrateFile: P4Submit.integrateFile with "-c <clnumber>"; the
\* method has no return statement
ShelveIntegrateFile(w, diff) ==
    [WithCl(w, integrateFile(w.c, diff)) EXCEPT
              !.s.filesToChangeExecBit =
                  IF isModeExecChanged(diff.src_mode, diff.dst_mode)
                  THEN Put(@, diff.dst, diff.dst_mode) ELSE @]

\* self.integrateFile(diff) of the command that runs: what it does and what
\* it returns
self_integrateFile(w, diff) ==
    IF w.s.shelve THEN [w |-> ShelveIntegrateFile(w, diff), dest |-> None]
    ELSE [w |-> SubmitIntegrateFile(w, diff), dest |-> diff.dst]

\* P4Submit.getChangedFiles
RECURSIVE getChangedFiles(_, _)
getChangedFiles(w, diffs) ==
    IF diffs = <<>> THEN w
    ELSE LET diff == Head(diffs)
             path == diff.src
             s == w.s
             w1 == IF diff.status = "M"
                   THEN [w EXCEPT !.s.editedFiles = @ \cup {path},
                                  !.s.filesToChangeExecBit =
                                      IF isModeExecChanged(diff.src_mode, diff.dst_mode)
                                      THEN Put(@, path, diff.dst_mode) ELSE @]
                   ELSE IF diff.status = "A"
                   THEN [w EXCEPT !.s.filesToAdd = @ \cup {path},
                                  !.s.filesToChangeExecBit = Put(@, path, diff.dst_mode),
                                  !.s.filesToDelete = @ \ {path}]
                   ELSE IF diff.status = "D"
                   THEN [w EXCEPT !.s.filesToDelete = @ \cup {path},
                                  !.s.filesToAdd = @ \ {path},
                                  !.s.editedFiles = @ \ {path}]
                   ELSE IF diff.status = "R"
                   THEN [self_integrateFile(w, diff).w EXCEPT
                                  !.s.editedFiles = @ \cup {self_integrateFile(w, diff).dest},
                                  !.s.filesToDelete = @ \cup {diff.src}]
                   ELSE IF diff.status = "C"
                   THEN [self_integrateFile(w, diff).w EXCEPT
                                  !.s.editedFiles = @ \cup {self_integrateFile(w, diff).dest}]
                   ELSE [w EXCEPT !.dead = TRUE]
         IN IF w1.dead THEN w1 ELSE getChangedFiles(w1, Tail(diffs))

\* for f in files: p4 edit f / p4 revert f
RECURSIVE EditAll(_, _)
EditAll(c, files) ==
    IF files = {} THEN c
    ELSE LET f == CHOOSE f \in files : TRUE IN EditAll(p4_edit(c, f), files \ {f})
RECURSIVE RevertAll(_, _)
RevertAll(c, files) ==
    IF files = {} THEN c
    ELSE LET f == CHOOSE f \in files : TRUE IN RevertAll(p4_revert(c, f), files \ {f})

\* P4Submit.addFilesToChangelist
addFilesToChangelist(w, diffs) ==
    LET w1 == getChangedFiles([w EXCEPT !.s.filesToAdd = {}, !.s.filesToDelete = {},
                                        !.s.editedFiles = {},
                                        !.s.filesToChangeExecBit = EmptyMap], diffs)
    IN IF w1.dead THEN w1 ELSE [w1 EXCEPT !.c = EditAll(@, w1.s.editedFiles)]

\* The second loop of revertCommit: p4 revert f, then system("rm f"), which
\* dies when rm fails
RECURSIVE RevertAndRemove(_, _)
RevertAndRemove(w, files) ==
    IF files = {} THEN w
    ELSE LET f == CHOOSE f \in files : TRUE
             c1 == p4_revert(w.c, f)
         IN IF f \notin c1.disk THEN [w EXCEPT !.c = c1, !.dead = TRUE]
            ELSE RevertAndRemove([w EXCEPT !.c = [c1 EXCEPT !.disk = @ \ {f}]], files \ {f})

\* P4Submit.revertCommit
revertCommit(w) ==
    RevertAndRemove([w EXCEPT !.c = RevertAll(@, w.s.editedFiles)], w.s.filesToAdd)

\* What "git apply" does to the workspace directory
RECURSIVE GitApply(_, _)
GitApply(disk, diffs) ==
    IF diffs = <<>> THEN disk
    ELSE LET diff == Head(diffs)
         IN GitApply(IF diff.status \in {"A", "C"} THEN disk \cup {diff.dst}
                     ELSE IF diff.status = "D" THEN disk \ {diff.src}
                     ELSE IF diff.status = "R" THEN (disk \cup {diff.dst}) \ {diff.src}
                     ELSE disk, Tail(diffs))

\* P4Submit.applyPatch: [w, ok].  applies tells whether the patch applies,
\* response is the answer raw_input returns when it does not: "s", "a", "w",
\* or "eof" when the standard input is closed and raw_input raises EOFError.
\* The method does not read self.interactive.
applyPatch(w, diffs, applies, response) ==
    IF applies THEN [ok |-> TRUE, w |-> [w EXCEPT !.c.disk = GitApply(@, diffs)]]
    ELSE IF response = "s" THEN [ok |-> FALSE, w |-> [w EXCEPT !.s.prompted = TRUE]]
    ELSE [ok |-> TRUE, w |-> [w EXCEPT !.s.prompted = TRUE, !.dead = TRUE]]

\* P4Submit.addOrDeleteFiles
RECURSIVE AddAll(_, _, _)
AddAll(c, files, editedFiles) ==
    IF files = {} THEN c
    ELSE LET f == CHOOSE f \in files : TRUE
             c1 == p4_add(c, f)
         IN AddAll(IF f \in editedFiles THEN p4_edit(c1, f) ELSE c1, files \ {f}, editedFiles)
RECURSIVE DeleteAll(_, _)
DeleteAll(c, files) ==
    IF files = {} THEN c
    ELSE LET f == CHOOSE f \in files : TRUE
         IN DeleteAll(p4_delete(p4_revert(c, f), f), files \ {f})
addOrDeleteFiles(w) ==
    [w EXCEPT !.c = DeleteAll(AddAll(@, w.s.filesToAdd, w.s.editedFiles), w.s.filesToDelete)]

\* A value of the interpreter that is an int or a str
PyInt(n) == [isStr |-> FALSE, int |-> n, str |-> <<>>]
PyStr(s) == [isStr |-> TRUE, int |-> 0, str |-> s]

\* v > n for an int n: the interpreter orders a str above every int
PyGreater(v, n) == v.isStr \/ v.int > n

\* "%s" % v
PyFormat(v) == IF v.isStr THEN v.str ELSE IntToStr(v.int)

\* The words of what "p4 submit -i" prints at the end: "Change N
\* submitted.", or "Change N renamed change M and submitted." when other
\* changelists were submitted since the depot gave the number N
Word(s) == [word |-> s, digits |-> <<>>]
Number(n) == [word |-> "0-9", digits |-> IntToStr(n)]
SubmitOutput(n, renamed) ==
    IF renamed
    THEN <<Word("Change"), Number(n), Word("renamed"), Word("change"), Number(n + 1),
           Word("and"), Word("submitted.")>>
    ELSE <<Word("Change"), Number(n), Word("submitted.")>>

\* re.search("Change ([0-9]+) submitted", output): <<group 1>> of the first
\* match, <<>> when nothing matches
SearchSubmitted(output) ==
    LET at == {i \in 1..(Len(output) - 2) :
                  /\ output[i] = Word("Change")
                  /\ output[i + 1].digits # <<>>
                  /\ output[i + 2] \in {Word("submitted"), Word("submitted.")}}
    IN IF at = {} THEN <<>>
       ELSE <<output[(CHOOSE i \in at : \A j \in at : i <= j) + 1].digits>>

\* P4Submit.submitCommit: p4_read_write_pipe dies when p4 refuses the
\* changelist, and the method dies when the output has no changelist number
submitCommit(w, renamed) ==
    IF ~p4_submit_ok(w.c) THEN [w EXCEPT !.dead = TRUE]
    ELSE LET n == w.c.change + 1
             match == SearchSubmitted(SubmitOutput(n, renamed))
             w1 == [w EXCEPT !.c = [p4_submit(@) EXCEPT
                                       !.change = IF renamed THEN n + 1 ELSE n],
                             !.s.submitted = TRUE]
         IN IF match # <<>> THEN [w1 EXCEPT !.s.changelist = PyStr(match[1])]
            ELSE [w1 EXCEPT !.dead = TRUE]

\* "p4 shelve -r -i" takes the changelist when it is pending, has open
\* files, and the files to send are in the workspace
p4_shelve_ok(c, cl) ==
    /\ cl \in c.pending
    /\ c.opened # EmptyMap
    /\ \A f \in DOMAIN c.opened : c.opened[f] = "delete" \/ f \in c.disk

\* P4Shelve.submitCommit: shelve -r -i, then revert -c <clnumber> of the
\* files under the depot path; returns self.clnumber
ShelveSubmitCommit(w) ==
    IF ~p4_shelve_ok(w.c, StrToInt(w.s.clnumber))
    THEN [w EXCEPT !.c = Logged(@, "shelve", <<>>, <<>>), !.dead = TRUE]
    ELSE [w EXCEPT !.c = RevertAll([Logged(@, "shelve", <<>>, <<>>) EXCEPT
                                       !.shelved = Put(@, StrToInt(w.s.clnumber),
                                                       DOMAIN w.c.opened)],
                                   DOMAIN w.c.opened),
                   !.s.submitted = TRUE,
                   !.s.changelist = PyStr(w.s.clnumber)]

\* "p4 change -d": refused when the changelist is not pending or has open
\* or shelved files
p4_change_d_ok(c, cl) ==
    /\ cl \in c.pending
    /\ c.opened = EmptyMap
    /\ cl \notin DOMAIN c.shelved

\* P4Shelve.revertCommit: P4Submit.revertCommit, then "change -d" when this
\* run created the changelist.  s.reverted is the length of the log of
\* depot commands when the method returned.
ShelveRevertCommit(w) ==
    LET w1 == revertCommit(w)
        cl == StrToInt(w.s.clnumber)
        c2 == Logged(w1.c, "change -d", <<>>, <<>>)
    IN IF w1.dead THEN w1
       ELSE IF w.s.existingClNumber # <<>>
       THEN [w1 EXCEPT !.s.reverted = Len(w1.c.log)]
       ELSE IF ~p4_change_d_ok(w1.c, cl) THEN [w1 EXCEPT !.c = c2, !.dead = TRUE]
       ELSE [w1 EXCEPT !.c = [c2 EXCEPT !.pending = @ \ {cl}],
                       !.s.reverted = Len(c2.log)]

\* self.submitCommit and self.revertCommit of the command that runs
self_submitCommit(w, renamed) ==
    IF w.s.shelve THEN ShelveSubmitCommit(w) ELSE submitCommit(w, renamed)
self_revertCommit(w) ==
    IF w.s.shelve THEN ShelveRevertCommit(w) ELSE revertCommit(w)

\* P4Submit.submit: edited tells whether the editor changed the mtime of the
\* template, answer is the first "y" or "a" the user gives when it did not
submit(w, edited, answer, renamed) ==
    LET unchanged == w.s.interactive /\ ~edited
        response == IF unchanged THEN answer ELSE "y"
        w1 == [w EXCEPT !.s.changelist = PyInt(0),
                        !.s.asked = unchanged,
                        !.s.abort = @ \/ (unchanged /\ response = "a")]
    IN IF response = "y" THEN self_submitCommit(w1, renamed) ELSE self_revertCommit(w1)

\* The text of the note "git notes --ref=git-p4 add -m" stores:
\* [depot-paths = "<depotPath>": change = <changelist>]
SubmitNote(depotPath, changelist) ==
    <<"[">> \o DepotPathsKey \o <<" ", "=", " ", Quote>> \o depotPath
    \o <<Quote, ":", " ">> \o ChangeKey \o <<" ", "=", " ">> \o PyFormat(changelist)
    \o <<"]", "\n">>

\* The end of applyCommit: if changelist > 0, add the note to commit id
AddNoteAlways(w, id) ==
    [w EXCEPT !.s.notes = Put(@, id, SubmitNote(w.s.depotPath, w.s.changelist))]
AddNote(w, id) ==
    IF PyGreater(w.s.changelist, 0)
    THEN [w EXCEPT !.s.notes = Put(@, id, SubmitNote(w.s.depotPath, w.s.changelist))]
    ELSE w

\* P4Helper.getP4OpenedType: the type "p4 opened" prints in parentheses at
\* the end of its line (<<>>: the file is not open, and the command dies)
getP4OpenedType(c, file) ==
    IF file \in DOMAIN c.otypes THEN c.otypes[file] ELSE <<>>

\* re.sub('^([cku]?)x(.*)', '\\1\\2', p4Type)
SubBaseX(p4Type) ==
    IF Len(p4Type) >= 1 /\ p4Type[1] = "x" THEN Tail(p4Type)
    ELSE IF Len(p4Type) >= 2 /\ p4Type[1] \in {"c", "k", "u"} /\ p4Type[2] = "x"
    THEN <<p4Type[1]>> \o SubSeq(p4Type, 3, Len(p4Type))
    ELSE p4Type

\* re.sub('(.*?\+.*?)x(.*?)', '\\1\\2', p4Type): each match runs to the
\* first x after the first +, and loses that x
RECURSIVE SubModifierX(_)
SubModifierX(p4Type) ==
    LET xs == {j \in DOMAIN p4Type :
                  p4Type[j] = "x" /\ \E i \in 1..(j - 1) : p4Type[i] = "+"}
    IN IF xs = {} THEN p4Type
       ELSE LET j == CHOOSE j \in xs : \A k \in xs : j <= k
            IN SubSeq(p4Type, 1, j - 1) \o SubModifierX(SubSeq(p4Type, j + 1, Len(p4Type)))

\* if p4Type[-1] == "+": p4Type = p4Type[0:-1]
StripPlus(p4Type) ==
    IF p4Type[Len(p4Type)] = "+" THEN SubSeq(p4Type, 1, Len(p4Type) - 1) ELSE p4Type

\* P4Helper.setP4ExecBit
setP4ExecBit(w, file, mode) ==
    IF isModeExec(mode) THEN [w EXCEPT !.c = p4_reopen(@, file, <<"+", "x">>)]
    ELSE IF getP4OpenedType(w.c, file) = <<>>
    THEN [w EXCEPT !.c = Logged(@, "opened", <<>>, file), !.dead = TRUE]
    ELSE [w EXCEPT !.c = p4_reopen(Logged(@, "opened", <<>>, file), file,
                                   StripPlus(SubModifierX(SubBaseX(getP4OpenedType(@, file)))))]

\* P4Submit.setExecutableBits
RECURSIVE SetBits(_, _)
SetBits(w, files) ==
    IF files = {} \/ w.dead THEN w
    ELSE LET f == CHOOSE f \in files : TRUE
         IN SetBits(setP4ExecBit(w, f, w.s.filesToChangeExecBit[f]), files \ {f})
setExecutableBits(w) == SetBits(w, DOMAIN w.s.filesToChangeExecBit)

\* P4Submit.applyCommit on commit id
applyCommit(w, id, diffs, applies, response, edited, answer, renamed) ==
    LET w1 == addFilesToChangelist([w EXCEPT !.s.skipped = FALSE, !.s.submitted = FALSE,
                                            !.s.prompted = FALSE, !.s.asked = FALSE,
                                            !.s.diffs = diffs, !.c.log = <<>>,
                                            !.s.reverted = 0], diffs)
        ap == applyPatch(w1, diffs, applies, response)
        rv == revertCommit([ap.w EXCEPT !.s.skipped = TRUE])
        w2 == IF ~ap.ok THEN [rv EXCEPT !.s.reverted = Len(rv.c.log)] ELSE ap.w
        w3 == addOrDeleteFiles(w2)
        w4 == setExecutableBits(w3)
        w5 == submit(w4, edited, answer, renamed)
    IN IF w1.dead THEN w1
       ELSE IF w2.dead THEN w2
       ELSE IF w4.dead THEN w4
       ELSE IF w5.dead THEN w5
       ELSE AddNote(w5, id)

----------------------------------------------------------------------------
(* The import specifications: users submit changelists and create labels   *)
(* in the depot, and run the sync command on the repository.  A sync       *)
(* command is one step: every depot query it makes is bounded by a         *)
(* changelist number, and nothing else writes to the repository.           *)

MaxLabels == 1       \* labels created in the depot

\* The dict iteration orders of the interpreter that are told apart
Orders == { <<Main, Master, BranchB>>, <<BranchB, Master, Main>> }

\* The command lines: "git p4 sync", "git p4 sync //d/@all", "git p4 sync //d/"
ArgSets == { <<>>, <<DepotRoot \o AtAll>>, <<DepotRoot>> }

LabelViews == { <<DepotRoot \o Dots>>, <<DepotRoot \o BranchB \o Slash \o Dots>> }

Idle == P4SyncNew(<<>>, [treeFilter |-> "", fuzzyTags |-> FALSE, detectBranches |-> FALSE,
                         detectLabels |-> FALSE, useClientSpec |-> FALSE])

NoRun == [n |-> 0, d |-> <<>>, opts |-> <<>>, todo |-> <<>>, args |-> <<>>, before |-> NoGit,
          emitted |-> 0]
NoSubmit == [state |-> "none"]
NoSplit == [state |-> "none"]
NoMerge == [files |-> <<>>, merge |-> FALSE, asked |-> FALSE]
NoReader == [stream |-> <<>>, asked |-> {}, state |-> "none", sent |-> <<>>, pos |-> 0,
             leftover |-> <<>>, out |-> <<>>]
\* No sync command has run: no scratch directory exists
NoRunDirs == [runs |-> 0, state |-> "none", contentFilter |-> FALSE, fileDump |-> FALSE,
              contentFilterDir |-> 0, dirs |-> {}, made |-> 0, left |-> 0,
              exit |-> "none"]
NoNotes == [written |-> EmptyMap, p4notes |-> EmptyMap, others |-> EmptyMap,
            read |-> [commit |-> 0, values |-> EmptyMap]]

Init ==
    /\ depot \in [order : Orders, changes : {<<>>}, labels : {<<>>}, specs : SpecSets]
    /\ git = NoGit
    /\ sync = Idle
    /\ runs = 0
    /\ hist = [last |-> NoRun, prev |-> NoRun]
    /\ sub = NoSubmit
    /\ client = NoClient
    /\ spl = NoSplit
    /\ nt = NoNotes
    /\ mrg = NoMerge
    /\ rdr = NoReader
    /\ scratch = NoRunDirs

\* A user submits a changelist (the model stops with its last sync command)
DepotSubmit ==
    /\ runs < MaxRuns
    /\ Len(depot.changes) < MaxChanges
    /\ \E sh \in ChangeShapes :
          /\ \A i \in DOMAIN sh :
                sh[i].src # <<>> => RevAt(depot.changes, sh[i].src, Len(depot.changes)) > 0
          /\ depot' = [depot EXCEPT !.changes = Append(@, NewEntries(@, sh))]
    /\ UNCHANGED <<git, sync, runs, hist, sub, client, spl, nt, mrg, rdr, scratch>>

\* A user labels the head revisions of the files of a view
DepotLabel ==
    /\ runs < MaxRuns
    /\ Len(depot.labels) < MaxLabels
    /\ \E views \in LabelViews :
          LET fs == P4FilesAt(depot.changes, [i \in DOMAIN views |->
                                 SubSeq(views[i], 1, Len(views[i]) - 3)], Len(depot.changes))
          IN /\ fs # {}
             /\ depot' = [depot EXCEPT !.labels = Append(@,
                             [revs |-> [p \in fs |->
                                          RevAt(depot.changes, p, Len(depot.changes))],
                              name |-> "L",
                              views |-> views])]
    /\ UNCHANGED <<git, sync, runs, hist, sub, client, spl, nt, mrg, rdr, scratch>>

\* P4Sync.run: the object when the command has ended
RunImport(env, st) == importChanges(env, st, st.todo)

run(env, order, args, opts) == RunImport(env, RunPrelude(env, order, args, opts))

\* "git p4 sync [depot paths]" with the given options, view being the view
\* of the depot client ("p4 client -o") and lag the number of records that
\* fast-import has not yet read when the command looks at the repository.
\* A command with
\* depot paths is the first import into an empty repository (P4Clone).  A
\* command that dies before it has written anything (no depot path is
\* known, or the depot path holds no file) changes nothing and is no step.
\* When the command ends fast-import reads the end of its input and updates the
\* refs; a command that hangs is killed, which leaves the refs of the last
\* checkpoint.
SyncIn(args, opts, view, lag) ==
    /\ runs < MaxRuns
    /\ args # <<>> => git = NoGit
    /\ \E st \in {run([g |-> git, lag |-> lag, d |-> depot, view |-> view, config |-> <<>>],
                      depot.order, args, opts)} :
          /\ ~(st.failed = "die" /\ st.gitStream = <<>>)
          /\ sync' = st
          /\ git' = IF st.failed = "hang" THEN GitView(git, st.gitStream)
                    ELSE FastImport(git, st.gitStream)
          /\ hist' = [last |-> [n |-> runs + 1, d |-> depot, opts |-> opts,
                                todo |-> st.todo,
                                args |-> args,
                                before |-> git,
                                emitted |-> Cardinality({i \in DOMAIN st.gitStream :
                                                           st.gitStream[i].kind = "commit"})],
                      prev |-> hist.last]
    /\ runs' = runs + 1
    /\ UNCHANGED <<depot, sub, client, spl, nt, mrg, rdr, scratch>>

\* The command when no client spec is used and fast-import reads every
\* record as soon as it is written
SyncWith(args, opts) == SyncIn(args, opts, <<>>, 0)

\* The sync command without label detection
Sync ==
    \E args \in ArgSets, detect \in BOOLEAN :
        SyncWith(args, [treeFilter |-> "", fuzzyTags |-> FALSE,
                        detectBranches |-> detect, detectLabels |-> FALSE, useClientSpec |-> FALSE])

Next == DepotSubmit \/ Sync

Spec == Init /\ [][Next]_vars

\* The pipe specification: the sync command with branch detection, and
\* fast-import up to MaxLag records behind the command
MaxLag == 2

PipeSync ==
    \E args \in ArgSets, lag \in 0..MaxLag :
        SyncIn(args, [treeFilter |-> "", fuzzyTags |-> FALSE, detectBranches |-> TRUE,
                      detectLabels |-> FALSE, useClientSpec |-> FALSE], <<>>, lag)

PipeNext == DepotSubmit \/ PipeSync

PipeSpec == Init /\ [][PipeNext]_vars

\* The first import with --detect-labels
SyncLabels ==
    \E args \in ArgSets \ {<<>>}, detect \in BOOLEAN, fuzzy \in BOOLEAN :
        /\ depot.labels # <<>>
        /\ SyncWith(args, [treeFilter |-> "", fuzzyTags |-> fuzzy,
                           detectBranches |-> detect, detectLabels |-> TRUE, useClientSpec |-> FALSE])

LabelNext == DepotSubmit \/ DepotLabel \/ SyncLabels

LabelInit ==
    /\ Init
    /\ depot.specs = <<SpecMainToB>>
    /\ depot.order = <<Main, Master, BranchB>>

LabelSpec == LabelInit /\ [][LabelNext]_vars

----------------------------------------------------------------------------
(* The file specification: the first import of a depot whose files have    *)
(* types and content and get deleted, with a tree filter and with the view *)
(* of a depot client.                                                      *)

MaxFileChanges == 2     \* changelists submitted to the depot

\* File content: expanded keywords, other text, the target of a symlink
KeywordText == <<"$", "Id", ":", "r", "$", "$", "Author", ":", "r", "$">>
LowerText == <<"$", "id", ":", "r", "$", "r">>
PlainText == <<"r">>
LinkText == <<"r", "\n">>

Typed(p, type, data) == [path |-> p, src |-> <<>>, type |-> type, data |-> data, del |-> FALSE]
Deleted(p) == [path |-> p, src |-> <<>>, type |-> TextType, data |-> <<>>, del |-> TRUE]

FileShapes ==
    { <<Typed(MainF, TextType, KeywordText)>>,
      <<Typed(MainF, TextType \o <<"+", "k", "o">>, KeywordText)>>,
      <<Typed(MainF, TextType \o <<"+", "k", "o">>, LowerText)>>,
      <<Typed(MainF, TextType \o <<"+", "k">>, KeywordText)>>,
      <<Typed(MainF, TextType \o <<"+", "k", "x">>, KeywordText)>>,
      <<Typed(MainF, <<"k", "x">> \o TextType, KeywordText)>>,
      <<Typed(MainF, <<"x">> \o TextType, PlainText)>>,
      <<Typed(MainF, SymlinkType, LinkText)>>,
      <<Typed(MainG, AppleType, PlainText)>>,
      <<Typed(MainF, TextType, PlainText), Typed(MainG, TextType \o <<"+", "x">>, PlainText)>>,
      <<Typed(BF, TextType, PlainText)>>,
      <<Deleted(MainF)>> }

\* The views of the depot client: none, "//d/... -//d/main/...",
\* "-//d/... //d/main/..." and "//d/b/..."
ClientViews ==
    { <<>>,
      <<DepotRoot \o Dots, <<"-">> \o DepotRoot \o Main \o Slash \o Dots>>,
      <<<<"-">> \o DepotRoot \o Dots, DepotRoot \o Main \o Slash \o Dots>>,
      <<DepotRoot \o BranchB \o Slash \o Dots>> }

FileInit ==
    /\ Init
    /\ depot.specs = <<SpecMainToB>>
    /\ depot.order = <<Main, Master, BranchB>>

\* A user submits a changelist before the import; a file that is deleted
\* exists
FileSubmit ==
    /\ runs = 0
    /\ Len(depot.changes) < MaxFileChanges
    /\ \E sh \in FileShapes :
          /\ \A i \in DOMAIN sh :
                sh[i].del =>
                    \E c \in DOMAIN depot.changes : \E k \in DOMAIN depot.changes[c] :
                        /\ depot.changes[c][k].path = sh[i].path
                        /\ c = LastChangeOf(depot.changes, sh[i].path, Len(depot.changes))
                        /\ depot.changes[c][k].action # "delete"
          /\ depot' = [depot EXCEPT !.changes = Append(@, NewEntries(@, sh))]
    /\ UNCHANGED <<git, sync, runs, hist, sub, client, spl, nt, mrg, rdr, scratch>>

\* The first import, with a tree filter and a client spec
FileSync ==
    \E args \in ArgSets \ {<<>>}, detect \in BOOLEAN, filter \in TreeFilters,
       view \in ClientViews :
        /\ runs = 0
        /\ SyncIn(args, [treeFilter |-> filter, fuzzyTags |-> FALSE,
                         detectBranches |-> detect, detectLabels |-> FALSE,
                         useClientSpec |-> view # <<>>], view, 0)

FileNext == FileSubmit \/ FileSync

FileSpec == FileInit /\ [][FileNext]_vars

----------------------------------------------------------------------------
(* The submit specification: "git p4 submit" on a workspace in which no    *)
(* file is open.  Between two rounds of applyCommits the command waits for *)
(* the answers of the user, so one round is one step.                      *)

MaxSubmitCommits == 2     \* commits between the import branch and master

\* The types of file f in the depot: text, xtext, text+x, text+kx
SubmitTypes ==
    { TextType, <<"x">> \o TextType, TextType \o <<"+", "x">>,
      TextType \o <<"+", "k", "x">> }

SubmitInit ==
    /\ depot = [order |-> <<Main, Master, BranchB>>, changes |-> <<>>, labels |-> <<>>,
                specs |-> <<SpecMainToB>>]
    /\ git = NoGit
    /\ sync = Idle
    /\ runs = 0
    /\ hist = [last |-> NoRun, prev |-> NoRun]
    /\ sub = NoSubmit
    /\ client \in {[change |-> 0, log |-> <<>>, opened |-> EmptyMap,
                     disk |-> h,
                     have |-> h, types |-> [f \in h |-> IF f = FileF THEN type ELSE TextType],
                     otypes |-> EmptyMap] :
                        h \in {{FileF, FileG}, {FileG}}, type \in SubmitTypes}
    /\ spl = NoSplit
    /\ nt = NoNotes
    /\ mrg = NoMerge
    /\ rdr = NoReader
    /\ scratch = NoRunDirs

\* The depot-paths of the note findUpstreamBranchPoint reads
SubmitPaths ==
    { <<DepotRoot>>, <<DepotRoot \o Main \o Slash, DepotRoot \o BranchB \o Slash>> }

\* P4Submit.__init__: self.updateP4Refs = True
updateP4Refs == TRUE

\* P4Submit.run up to applyCommits; tree is what the parent of the next
\* commit holds
SubmitRun ==
    /\ sub.state = "none"
    /\ \E n \in 1..MaxSubmitCommits, interactive \in BOOLEAN, paths \in SubmitPaths :
          sub' = [commits |-> n, tree |-> client.have,
                  filesToChangeExecBit |-> EmptyMap,
                  shelve |-> FALSE, diffs |-> <<>>, editedFiles |-> {}, filesToAdd |-> {},
                  filesToDelete |-> {}, prompted |-> FALSE,
                  submitted |-> FALSE,
                  changelist |-> PyInt(0), reverted |-> 0, interactive |-> interactive,
                  asked |-> FALSE, abort |-> FALSE, depotPath |-> paths[1],
                  notes |-> EmptyMap, skipped |-> FALSE, state |-> "running",
                  execs |-> {f \in client.have : isP4Exec(client.types[f])}, total |-> n, p4ref |-> "origin", done |-> <<>>]
    /\ UNCHANGED <<depot, git, sync, runs, hist, client, spl, nt, mrg, rdr, scratch>>

\* The diff of a commit made on a tree: it modifies, deletes and renames
\* files the tree holds and adds files it does not hold.  Commits on files
\* that an earlier skipped commit has left different in the tree and in
\* the depot are left out.
DiffOn(tree, have, diffs) ==
    \A i \in DOMAIN diffs :
        LET diff == diffs[i]
        IN /\ diff.status # "A" => diff.src \in tree /\ diff.src \in have
           /\ diff.status \in {"A", "R", "C"} => diff.dst \notin tree /\ diff.dst \notin have

\* The source modes of the diff are the modes of the tree, and the files
\* have in the depot the executable bit they have in the tree
ModesOn(execs, types, diffs) ==
    \A i \in DOMAIN diffs :
        diffs[i].status # "A" =>
            /\ isModeExec(diffs[i].src_mode) <=> diffs[i].src \in execs
            /\ isP4Exec(types[diffs[i].src]) <=> diffs[i].src \in execs

\* The executable files of the tree after the commit
RECURSIVE GitExecs(_, _)
GitExecs(execs, diffs) ==
    IF diffs = <<>> THEN execs
    ELSE GitExecs(IF Head(diffs).status = "D" THEN execs \ {Head(diffs).src}
                  ELSE IF isModeExec(Head(diffs).dst_mode)
                  THEN (execs \ (IF Head(diffs).status = "R" THEN {Head(diffs).src} ELSE {}))
                       \cup {Head(diffs).dst}
                  ELSE execs \ {Head(diffs).src, Head(diffs).dst},
                  Tail(diffs))

\* One round of P4Submit.applyCommits on the next commit of the batch.
\* sub.done keeps, for each commit that was applied, what happened: whether
\* its patch applied, whether the two questions were asked and what the
\* user answered, whether the depot took the changelist, and the number N
\* of its "Change N submitted." (0: it did not print that).
applyCommits ==
    /\ sub.state = "running" /\ sub.commits > 0 /\ ~sub.abort
    /\ \E diffs \in DiffShapes, applies \in BOOLEAN, response \in {"s", "a", "w", "eof"},
          edited \in BOOLEAN, answer \in {"y", "a"}, renamed \in BOOLEAN :
          /\ DiffOn(sub.tree, client.have, diffs)
          /\ ModesOn(sub.execs, client.types, diffs)
          /\ applies => response = "s"
          /\ (~sub.interactive \/ edited) => answer = "y"
          /\ ~sub.interactive => ~edited
          /\ \E w \in {applyCommit([s |-> [sub EXCEPT !.commits = @ - 1], c |-> client,
                                     dead |-> FALSE], sub.total - sub.commits + 1,
                                    diffs, applies, response, edited, answer, renamed)} :
                /\ client' = w.c
                /\ sub' = [w.s EXCEPT !.state = IF w.dead THEN "died" ELSE @,
                                      !.tree = GitApply(@, diffs),
                                      !.execs = GitExecs(@, diffs),
                                      !.done = Append(@,
                                          [applies |-> applies, response |-> response,
                                           prompted |-> w.s.prompted, edited |-> edited,
                                           answer |-> answer,
                                           asked |-> w.s.asked,
                                           sent |-> w.s.submitted,
                                           said |-> IF w.s.submitted /\ ~renamed
                                                    THEN w.c.change ELSE 0])]
    /\ UNCHANGED <<depot, git, sync, runs, hist, spl, nt, mrg, rdr, scratch>>

\* P4Submit.run after applyCommits
SubmitEnd ==
    /\ sub.state = "running" /\ (sub.commits = 0 \/ sub.abort)
    /\ sub' = [sub EXCEPT !.state = "done",
                          !.p4ref = IF sub.abort = FALSE /\ updateP4Refs THEN "master" ELSE @]
    /\ UNCHANGED <<depot, git, sync, runs, hist, client, spl, nt, mrg, rdr, scratch>>

SubmitNext == SubmitRun \/ applyCommits \/ SubmitEnd

SubmitSpec == SubmitInit /\ [][SubmitNext]_vars

----------------------------------------------------------------------------
(* The shelve specification: "git p4 shelve" on a workspace in which no    *)
(* file is open.  P4Shelve.applyCommits shelves all the commits in one     *)
(* changelist, so the method is one step.                                  *)
(*   client.pending  the numbers of the pending changelists of the client  *)
(*   client.shelved  changelist -> the files shelved in it                 *)
(* Every file the command opens is opened with -c <clnumber>.              *)

MaxShelveCommits == 2     \* commits between the import branch and master

ExistingCl == 1           \* the pending changelist the user can name with -c

ShelveInit ==
    /\ depot = [order |-> <<Main, Master, BranchB>>, changes |-> <<>>, labels |-> <<>>,
                specs |-> <<SpecMainToB>>]
    /\ git = NoGit
    /\ sync = Idle
    /\ runs = 0
    /\ hist = [last |-> NoRun, prev |-> NoRun]
    /\ sub = NoSubmit
    /\ client \in {[change |-> ExistingCl, log |-> <<>>, opened |-> EmptyMap, disk |-> h,
                     have |-> h,
                     types |-> [f \in h |-> IF f = FileF THEN type ELSE TextType], otypes |-> EmptyMap,
                     pending |-> {ExistingCl}, shelved |-> EmptyMap] :
                        h \in {{FileF, FileG}, {FileG}},
                        type \in {TextType, TextType \o <<"+", "x">>}}
    /\ spl = NoSplit
    /\ nt = NoNotes
    /\ mrg = NoMerge
    /\ rdr = NoReader
    /\ scratch = NoRunDirs

\* P4Shelve.run up to applyCommits: clnumber is the value of the option -c
ShelveRun ==
    /\ sub.state = "none"
    /\ \E n \in 1..MaxShelveCommits, interactive \in BOOLEAN,
          clnumber \in {<<>>, IntToStr(ExistingCl)} :
          sub' = [commits |-> n, clnumber |-> clnumber,
                  filesToChangeExecBit |-> EmptyMap, shelve |-> TRUE, diffs |-> <<>>,
                  editedFiles |-> {}, filesToAdd |-> {}, filesToDelete |-> {},
                  prompted |-> FALSE, submitted |-> FALSE, changelist |-> PyInt(0),
                  existingClNumber |-> <<>>, reverted |-> 0, interactive |-> interactive,
                  asked |-> FALSE, abort |-> FALSE, depotPath |-> DepotRoot,
                  skipped |-> FALSE, state |-> "running", patched |-> 0]
    /\ UNCHANGED <<depot, git, sync, runs, hist, client, spl, nt, mrg, rdr, scratch>>

\* The diffs of commits made one on the other, the first on the tree
RECURSIVE DiffsOn(_, _, _)
DiffsOn(tree, execs, ds) ==
    IF Len(ds) = 0 THEN TRUE
    ELSE /\ DiffOn(tree, tree, Head(ds))
         /\ \A i \in DOMAIN Head(ds) :
               Head(ds)[i].status # "A" =>
                   (isModeExec(Head(ds)[i].src_mode) <=> Head(ds)[i].src \in execs)
         /\ DiffsOn(GitApply(tree, Head(ds)), GitExecs(execs, Head(ds)), Tail(ds))

\* What "p4 change -i" prints: "Change N created."
ChangeOutput(n) == <<Word("Change"), Number(n), Word("created.")>>

\* P4Shelve.applyCommits, the changelist: a new one, of which the number is
\* output.split(' ')[1], or the one of the option -c
ShelveChangelist(w) ==
    IF w.s.clnumber = <<>>
    THEN [w EXCEPT !.c = [Logged(@, "change -i", <<>>, <<>>) EXCEPT
                             !.change = @ + 1, !.pending = @ \cup {w.c.change + 1}],
                   !.s.clnumber = ChangeOutput(w.c.change + 1)[2].digits]
    ELSE [w EXCEPT !.s.existingClNumber = w.s.clnumber]

\* for commit in self.commits: self.getChangedFiles(diffOpts, commit)
RECURSIVE ShelveChangedFiles(_, _)
ShelveChangedFiles(w, ds) ==
    IF ds = <<>> \/ w.dead THEN w
    ELSE ShelveChangedFiles(getChangedFiles([w EXCEPT !.s.diffs = @ \o Head(ds)], Head(ds)),
                            Tail(ds))

\* for editedFile in self.editedFiles: edit -c, if it is not in filesToAdd.
\* escapeStringP4(None) raises TypeError; noneFirst tells whether the set
\* yields None before the paths.
ShelveEditAll(w, noneFirst) ==
    IF None \in w.s.editedFiles \ w.s.filesToAdd
    THEN IF noneFirst THEN [w EXCEPT !.dead = TRUE]
         ELSE [WithCl(w, EditAll(w.c, (w.s.editedFiles \ w.s.filesToAdd) \ {None}))
                  EXCEPT !.dead = TRUE]
    ELSE IF w.s.editedFiles \ w.s.filesToAdd = {} THEN w
    ELSE WithCl(w, EditAll(w.c, w.s.editedFiles \ w.s.filesToAdd))

\* for commit in self.commits: if not self.applyPatch(commit):
\* self.revertCommit(); break.  failAt is the commit of which the patch
\* does not apply (0: all apply).
RECURSIVE ShelvePatches(_, _, _, _)
ShelvePatches(w, ds, failAt, response) ==
    IF ds = <<>> \/ w.dead THEN w
    ELSE IF failAt = 1
    THEN IF applyPatch(w, Head(ds), FALSE, response).ok
         THEN applyPatch(w, Head(ds), FALSE, response).w
         ELSE self_revertCommit([applyPatch(w, Head(ds), FALSE, response).w
                                    EXCEPT !.s.skipped = TRUE])
    ELSE ShelvePatches([applyPatch(w, Head(ds), TRUE, response).w
                           EXCEPT !.s.patched = @ + 1],
                       Tail(ds), failAt - 1, response)

\* self.addOrDeleteFiles("-c %s" % self.clnumber): the first command dies
\* when the changelist is not pending
ShelveAddOrDeleteFiles(w) ==
    IF w.s.filesToAdd \cup w.s.filesToDelete = {} THEN w
    ELSE IF StrToInt(w.s.clnumber) \in w.c.pending
    THEN [w EXCEPT !.c = addOrDeleteFiles(w).c]
    ELSE [w EXCEPT !.c = IF w.s.filesToAdd # {}
                         THEN Logged(@, "add", <<>>, CHOOSE f \in w.s.filesToAdd : TRUE)
                         ELSE Logged(@, "revert", <<>>, CHOOSE f \in w.s.filesToDelete : TRUE),
                   !.dead = TRUE]

\* self.prepareSubmitTemplate(self.clnumber): "p4 change -o <clnumber>" dies
\* when the changelist is not pending
ShelveTemplate(w) ==
    [w EXCEPT !.c = Logged(@, "change -o", <<>>, <<>>),
              !.dead = StrToInt(w.s.clnumber) \notin w.c.pending]

\* A step of a method on w, which a command that died does not take
Alive(w, r) == IF w.dead THEN w ELSE r

\* P4Shelve.applyCommits
ShelveApplyCommits ==
    /\ sub.state = "running"
    /\ \E ds \in [1..sub.commits -> DiffShapes], failAt \in 0..sub.commits,
          response \in {"s", "a", "w", "eof"}, noneFirst \in BOOLEAN,
          edited \in BOOLEAN, answer \in {"y", "a"} :
          /\ DiffsOn(client.have, {f \in client.have : isP4Exec(client.types[f])}, ds)
          /\ failAt = 0 => response = "s"
          /\ (~sub.interactive \/ edited) => answer = "y"
          /\ ~sub.interactive => ~edited
          /\ (\A k \in DOMAIN ds : \A i \in DOMAIN ds[k] : ds[k][i].status # "R")
                => ~noneFirst
          /\ \E w0 \in {ShelveChangelist([s |-> sub, c |-> client, dead |-> FALSE])} :
             \E w1 \in {ShelveChangedFiles(w0, ds)} :
             \E w2 \in {Alive(w1, ShelveEditAll(w1, noneFirst))} :
             \E w3 \in {Alive(w2, ShelvePatches(w2, ds, failAt, response))} :
             \E w4 \in {Alive(w3, ShelveAddOrDeleteFiles(w3))} :
             \E w5 \in {Alive(w4, setExecutableBits(w4))} :
             \E w6 \in {Alive(w5, ShelveTemplate(w5))} :
             \E w7 \in {Alive(w6, submit(w6, edited, answer, FALSE))} :
                /\ client' = w7.c
                /\ sub' = [w7.s EXCEPT !.state = IF w7.dead THEN "died" ELSE "applied"]
    /\ UNCHANGED <<depot, git, sync, runs, hist, spl, nt, mrg, rdr, scratch>>

\* P4Submit.run after applyCommits: P4Shelve sets updateP4Refs to False
ShelveEnd ==
    /\ sub.state = "applied"
    /\ sub' = [sub EXCEPT !.state = "done"]
    /\ UNCHANGED <<depot, git, sync, runs, hist, client, spl, nt, mrg, rdr, scratch>>

ShelveNext == ShelveRun \/ ShelveApplyCommits \/ ShelveEnd

ShelveSpec == ShelveInit /\ [][ShelveNext]_vars

----------------------------------------------------------------------------
(* The note specification: commit() writes the text of a note, git keeps   *)
(* it under refs/notes/git-p4, and extractSettingsFromNotes reads it back. *)
(* Texts are sequences of characters; Quote stands for the double quote.   *)
(*   nt.p4notes  commit -> text of its note under refs/notes/git-p4        *)
(*   nt.others   commit -> text of its note under refs/notes/commits       *)
(*   nt.written  commit -> what commit() was given when it wrote the note  *)
(*   nt.read     the commit extractSettingsFromNotes was called with last, *)
(*               and the dict it returned                                  *)

\* sep.join(parts)
RECURSIVE Join(_, _)
Join(parts, sep) ==
    IF parts = <<>> THEN <<>>
    ELSE IF Len(parts) = 1 THEN parts[1]
    ELSE parts[1] \o <<sep>> \o Join(Tail(parts), sep)

\* s.split(sep)
RECURSIVE Split(_, _)
Split(s, sep) ==
    LET at == {i \in DOMAIN s : s[i] = sep}
    IN IF at = {} THEN <<s>>
       ELSE LET i == CHOOSE i \in at : \A j \in at : i <= j
            IN <<SubSeq(s, 1, i - 1)>> \o Split(SubSeq(s, i + 1, Len(s)), sep)

\* s.strip()
RECURSIVE Strip(_)
Strip(s) ==
    IF s = <<>> THEN s
    ELSE IF s[1] \in {" ", "\n"} THEN Strip(Tail(s))
    ELSE IF s[Len(s)] \in {" ", "\n"} THEN Strip(SubSeq(s, 1, Len(s) - 1))
    ELSE s

\* The text of the note commit() writes: the data block
\* [depot-paths = "<paths>": change = <change>: options = <options>]
\* of which fast-import keeps the line with its newline
NoteText(branchPrefixes, change, options) ==
    <<"[">> \o DepotPathsKey \o <<" ", "=", " ", Quote>> \o Join(branchPrefixes, ",")
    \o <<Quote, ":", " ">> \o ChangeKey \o <<" ", "=", " ">> \o IntToStr(change)
    \o (IF Len(options) > 0 THEN <<":", " ">> \o OptionsKey \o <<" ", "=", " ">> \o options
        ELSE <<>>)
    \o <<"]", "\n">>

\* re.search(r"^ *\[(.*)\]$", note): the group, or no match.  Without
\* re.MULTILINE the text is one line, which a newline may end.
RECURSIVE LeadingSpaces(_)
LeadingSpaces(s) == IF s # <<>> /\ s[1] = " " THEN 1 + LeadingSpaces(Tail(s)) ELSE 0
NoteMatch(note) ==
    LET line == IF note # <<>> /\ note[Len(note)] = "\n"
                THEN SubSeq(note, 1, Len(note) - 1) ELSE note
        sp == LeadingSpaces(line)
    IN IF /\ Len(line) >= sp + 2
          /\ line[sp + 1] = "["
          /\ line[Len(line)] = "]"
          /\ \A i \in DOMAIN line : line[i] # "\n"
       THEN [ok |-> TRUE, group |-> SubSeq(line, sp + 2, Len(line) - 1)]
       ELSE [ok |-> FALSE, group |-> <<>>]

\* One assignment "key = value" of the note: the value loses the quotes
\* around it
Unquote(val) ==
    IF val # <<>> /\ val[1] = Quote /\ val[Len(val)] = Quote
    THEN SubSeq(val, 2, Len(val) - 1) ELSE val
RECURSIVE Assign(_, _)
Assign(values, assignments) ==
    IF assignments = <<>> THEN values
    ELSE Assign(Put(values, Strip(Head(Split(Head(assignments), "="))),
                    Unquote(Strip(Join(Tail(Split(Head(assignments), "=")), "=")))),
                Tail(assignments))

\* The end of extractSettingsFromNotes: paths is the value of depot-paths,
\* or of depot-path when that is missing or empty
WithPaths(values, paths) ==
    IF paths # <<>> THEN Put(values, DepotPathsKey, Split(paths, ",")) ELSE values
Get(values, key) == IF key \in DOMAIN values THEN values[key] ELSE <<>>

Settled(values) ==
    WithPaths(values, IF Get(values, DepotPathsKey) # <<>> THEN Get(values, DepotPathsKey)
                      ELSE Get(values, DepotPathKey))

\* extractSettingsFromNotes on the text "git notes --ref=git-p4 show" prints
\* (nothing for a commit without a note)
ExtractSettings(note) ==
    IF ~NoteMatch(note).ok THEN EmptyMap
    ELSE Settled(Assign(EmptyMap, Split(NoteMatch(note).group, ":")))

NoteShow(c) == IF c \in DOMAIN nt.p4notes THEN nt.p4notes[c] ELSE <<>>

MaxNoteChange == 12      \* the highest changelist number written into a note

NoteCommits == {1, 2}

\* Depot paths //d/, //d/b/, //d/a,b/ and //d/a:b/
CommaPath == DepotRoot \o <<"a", ",", "b", "/">>
ColonPath == DepotRoot \o <<"a", ":", "b", "/">>
NotePathLists ==
    { <<DepotRoot>>, <<DepotRoot \o BranchB \o Slash>>,
      <<DepotRoot \o Main \o Slash, DepotRoot \o BranchB \o Slash>>,
      <<CommaPath>>, <<ColonPath>> }
NoteOptions == { <<>>, <<"k", "e", "e", "p", "R", "e", "p", "o", "P", "a", "t", "h">> }

\* The notes users add under refs/notes/commits: a remark, and a text in
\* the format of the import's notes
ManualNotes == { <<"m", "a", "n", "u", "a", "l", "\n">>, NoteText(<<DepotRoot \o <<"x", "/">>>>, 9, <<>>) }

NoteInit ==
    /\ depot = [order |-> <<Main, Master, BranchB>>, changes |-> <<>>, labels |-> <<>>,
                specs |-> <<>>]
    /\ git = NoGit
    /\ sync = Idle
    /\ runs = 0
    /\ hist = [last |-> NoRun, prev |-> NoRun]
    /\ sub = NoSubmit
    /\ client = NoClient
    /\ spl = NoSplit
    /\ nt = NoNotes
    /\ mrg = NoMerge
    /\ rdr = NoReader
    /\ scratch = NoRunDirs

\* commit() writes the note of a commit, and fast-import stores it
NoteCommit ==
    /\ \E c \in NoteCommits \ DOMAIN nt.p4notes, paths \in NotePathLists,
          change \in {7, MaxNoteChange}, options \in NoteOptions :
          nt' = [nt EXCEPT !.p4notes = Put(@, c, NoteText(paths, change, options)),
                           !.written = Put(@, c, [depotPaths |-> paths, change |-> change,
                                                  options |-> options]),
                           !.read = NoNotes.read]
    /\ UNCHANGED <<depot, git, sync, runs, hist, sub, client, spl, mrg, rdr, scratch>>

\* A user adds a note under refs/notes/commits
NoteManual ==
    /\ \E c \in NoteCommits \ DOMAIN nt.others, text \in ManualNotes :
          nt' = [nt EXCEPT !.others = Put(@, c, text), !.read = NoNotes.read]
    /\ UNCHANGED <<depot, git, sync, runs, hist, sub, client, spl, mrg, rdr, scratch>>

\* extractSettingsFromNotes(commit)
NoteExtract ==
    /\ \E c \in NoteCommits :
          nt' = [nt EXCEPT !.read = [commit |-> c, values |-> ExtractSettings(NoteShow(c))]]
    /\ UNCHANGED <<depot, git, sync, runs, hist, sub, client, spl, mrg, rdr, scratch>>

NoteNext == NoteCommit \/ NoteManual \/ NoteExtract

NoteSpec == NoteInit /\ [][NoteNext]_vars

----------------------------------------------------------------------------
(* The branch specification: the branch mapping is computed from the       *)
(* branch specs of a depot and the git-p4.branchList entries, or from the  *)
(* import branches of the repository, and the files of changelists are     *)
(* split with it.                                                          *)

MaxSplitChanges == 1     \* changelists that are split

\* Depot branches "x/a", "x/a/b" and "x/a-"
SplitA == <<"x", "/", "a">>
SplitAB == SplitA \o <<"/", "b">>
SplitADash == SplitA \o <<"-">>
SplitNames == {Main, SplitA, SplitAB, SplitADash}

SplitOrders == {o \in [1..4 -> SplitNames] : \A i, j \in 1..4 : i # j => o[i] # o[j]}

\* The view "//d/<from>/... //d/<to>/..."
SplitView(from, to) == <<DepotRoot \o from \o Slash \o Dots, DepotRoot \o to \o Slash \o Dots>>

SplitSpecSets ==
    { <<>>,
      <<SplitView(Main, SplitA)>>,
      <<SplitView(Main, SplitA), SplitView(SplitA, SplitAB)>>,
      <<SplitView(Main, SplitA), SplitView(Main, SplitAB)>>,
      <<SplitView(Main, SplitA), SplitView(Main, SplitADash)>>,
      <<SplitView(Main, SplitAB), SplitView(Main, SplitADash)>> }

SplitConfigs == { <<>>, << <<Main, SplitAB>> >>, << <<SplitA, SplitADash>> >> }

\* The import branches a repository can hold at once (a ref cannot lie
\* under another ref), as getBranchMappingFromGitBranches names them
SplitGitBranches == { {Main}, {Main, SplitA, SplitADash}, {Main, SplitAB, SplitADash} }

\* P4Sync.getBranchMappingFromGitBranches
getBranchMappingFromGitBranches(known0, branches) ==
    [b \in (DOMAIN known0) \cup branches |-> IF b \in branches THEN b ELSE known0[b]]

\* P4Sync.detectP4Branches on a new object
SplitMap ==
    /\ spl.state = "none"
    /\ \E order \in SplitOrders, hasOrigin \in BOOLEAN :
          \E specs \in SplitSpecSets, config \in SplitConfigs, branches \in SplitGitBranches :
             /\ hasOrigin => specs = <<>> /\ config = <<>>
             /\ ~hasOrigin => branches = {Main}
             /\ spl' = [order |-> order, changes |-> 0, known |-> IF hasOrigin
                                  THEN getBranchMappingFromGitBranches(EmptyMap, branches)
                                  ELSE getBranchMapping(order, DepotRoot, EmptyMap, specs, config),
                        branches |-> EmptyMap,
                        state |-> "mapped"]
    /\ UNCHANGED <<depot, git, sync, runs, hist, sub, client, nt, mrg, rdr, scratch>>

SplitFiles == <<DepotRoot \o Main \o Slash \o FileF, DepotRoot \o SplitA \o Slash \o FileF,
                DepotRoot \o SplitAB \o Slash \o FileF, DepotRoot \o SplitADash \o Slash \o FileF>>

\* P4Sync.splitFilesIntoBranches on the description of a changelist
SplitChange ==
    /\ spl.state \in {"mapped", "split"}
    /\ spl.changes < MaxSplitChanges
    /\ \E touched \in (SUBSET (1..4)) \ {{}} :
          LET inChange(i) == i \in touched
              idx == SelectSeq(<<1, 2, 3, 4>>, inChange)
              details == [change |-> spl.changes + 1,
                          files |-> [k \in DOMAIN idx |->
                                       [path |-> SplitFiles[idx[k]], src |-> <<>>, type |-> TextType,
                                        data |-> <<>>, rev |-> 1, action |-> "add"]],
                          options |-> <<>>]
              st == [Idle EXCEPT !.order = spl.order, !.depotPaths = <<DepotRoot>>,
                                 !.detectBranches = TRUE, !.knownBranches = spl.known]
          IN spl' = [spl EXCEPT !.state = "split", !.changes = @ + 1,
                                !.branches = splitFilesIntoBranches(st, details)]
    /\ UNCHANGED <<depot, git, sync, runs, hist, sub, client, nt, mrg, rdr, scratch>>

SplitNext == SplitMap \/ SplitChange

SplitInit ==
    /\ depot = [order |-> <<Main, Master, BranchB>>, changes |-> <<>>, labels |-> <<>>,
                specs |-> <<>>]
    /\ git = NoGit
    /\ sync = Idle
    /\ runs = 0
    /\ hist = [last |-> NoRun, prev |-> NoRun]
    /\ sub = NoSubmit
    /\ client = NoClient
    /\ spl = NoSplit
    /\ nt = NoNotes
    /\ mrg = NoMerge
    /\ rdr = NoReader
    /\ scratch = NoRunDirs

SplitSpec == SplitInit /\ [][SplitNext]_vars

----------------------------------------------------------------------------
(* Properties of the import.  They are stated over the stream the last     *)
(* sync command wrote (sync.gitStream), the repository it left (git) and   *)
(* the history variable.                                                   *)

Stream == sync.gitStream
Commits == {i \in DOMAIN Stream : Stream[i].kind = "commit"}
Notes == {i \in DOMAIN Stream : Stream[i].kind = "note"}

\* The depot as it was when the last sync command ran
DepotThen == hist.last.d.changes

\* The newest changelist under the depot paths of the last command
NewestUnderPaths == SeqMax(P4Changes(DepotThen, sync.depotPaths, 1, HeadRev))

\* C1: the "change" of the note of every commit the command emits is the
\* changelist that produced the commit: the one the import loop was at,
\* and for a head-revision import the newest changelist of the files.
C1_NoteChangeIsConsumed ==
    \A i \in Commits :
        /\ \E j \in Notes : Stream[j].target = Stream[i].mark
        /\ \A j \in Notes : Stream[j].target = Stream[i].mark =>
              Stream[j].change = (IF Stream[i].of # 0 THEN Stream[i].of ELSE NewestUnderPaths)

\* A branch-detection run that committed two different changelists
C1_Witness ==
    /\ sync.detectBranches
    /\ \E i, j \in Commits : Stream[i].of # 0 /\ Stream[j].of # 0 /\ Stream[i].of # Stream[j].of
    /\ C1_NoteChangeIsConsumed

\* C4: every commit on an import branch is immediately followed by the one
\* note of the stream that annotates its mark, and every note annotates the
\* mark of the commit just before it.
C4_NotePairing ==
    /\ \A i \in Commits :
          /\ i + 1 \in Notes
          /\ Stream[i + 1].target = Stream[i].mark
          /\ Cardinality({j \in Notes : Stream[j].target = Stream[i].mark}) = 1
    /\ \A j \in Notes : j - 1 \in Commits /\ Stream[j - 1].mark = Stream[j].target
    /\ \A i, k \in Commits : i # k => Stream[i].mark # Stream[k].mark

\* A run that emitted three commits, one of them behind a checkpoint
C4_Witness ==
    /\ Cardinality(Commits) >= 3
    /\ \E i \in Commits : i > 1 /\ Stream[i - 1].kind = "checkpoint"
    /\ C4_NotePairing

\* The repository as it was when the last sync command started
Before == hist.last.before

MasterRef == getRefsPrefix \o Master

\* The change recorded in the note of a commit of a repository (0: none)
ChangeOfCommit(g, c) ==
    IF extractSettingsFromNotes(g, c) = EmptyMap THEN 0
    ELSE extractSettingsFromNotes(g, c).change

\* C2: a sync without arguments that follows a sync without arguments, with
\* no submit to the depot in between, emits no commit and no note and
\* leaves every import ref and the notes ref as they were.
C2_SecondSyncIsIdle ==
    (/\ hist.last.args = <<>> /\ hist.prev.n > 0 /\ hist.prev.args = <<>>
     /\ hist.prev.opts = hist.last.opts /\ hist.prev.d = hist.last.d)
        => /\ Commits = {} /\ Notes = {}
           /\ git.refs = Before.refs
           /\ git.ntip = Before.ntip

\* Two syncs without arguments on the same depot state, the first of which
\* imported something
C2_Witness ==
    /\ hist.last.args = <<>> /\ hist.prev.args = <<>>
    /\ hist.prev.n > 0 /\ hist.prev.d = hist.last.d
    /\ hist.prev.opts = hist.last.opts
    /\ hist.prev.emitted >= 1
    /\ Commits = {} /\ git.refs = Before.refs

\* The changelists of the commits of the stream, in stream order, as their
\* notes record them
EmittedChanges ==
    LET isCommit(r) == r.kind = "commit"
        idx == SelectSeq([i \in DOMAIN Stream |-> [i |-> i, kind |-> Stream[i].kind]], isCommit)
    IN [k \in DOMAIN idx |-> Stream[idx[k].i + 1].change]

StrictlyAscending(s) == \A i \in 1..(Len(s) - 1) : s[i] < s[i + 1]

\* C3 as the specification states it: the commits of one run are emitted in
\* strictly ascending changelist order, whatever the mode.
C3_AscendingInEveryMode == StrictlyAscending(EmittedChanges)

\* C3, amended: with branch detection off the commits of one run are
\* emitted in strictly ascending changelist order.  (With branch detection
\* on a changelist gives one commit per branch it touches, and
\* importNewBranch emits the older changelists of a new branch after newer
\* ones.)
C3_AscendingWithoutDetection ==
    ~sync.detectBranches => StrictlyAscending(EmittedChanges)

\* A run without branch detection that emitted three commits
C3_Witness ==
    /\ ~sync.detectBranches
    /\ Len(EmittedChanges) >= 3
    /\ StrictlyAscending(EmittedChanges)

\* The branch-detection run that imports the older changelist of a new
\* branch after a newer changelist
C3_OlderAfterNewer ==
    /\ sync.detectBranches
    /\ \E i \in 1..(Len(EmittedChanges) - 1) : EmittedChanges[i] > EmittedChanges[i + 1]

\* The depot paths of the last command cover a file of changelist k
UnderDepotPaths(k) ==
    \E i \in DOMAIN DepotThen[k] : \E j \in DOMAIN sync.depotPaths :
        StartsWith(DepotThen[k][i].path, sync.depotPaths[j])

\* The first-parent chain of commit tip down to (not including) commit base,
\* oldest first; it starts with 0 if base is not on the chain
RECURSIVE ChainTo(_, _, _)
ChainTo(g, tip, base) ==
    IF tip = base THEN <<>>
    ELSE IF tip = 0 THEN <<0>>
    ELSE Append(ChainTo(g, g.commits[tip].parent, base), tip)

\* The last command ran without arguments on a repository whose
\* refs/remotes/p4/master held a commit with a note
IncrementalCase ==
    /\ hist.last.n > 0 /\ hist.last.args = <<>>
    /\ MasterRef \in DOMAIN Before.refs
    /\ ChangeOfCommit(Before, Before.refs[MasterRef]) > 0

\* What C5 promises of such a run, c0 being the change of that note
IncrementalResult ==
    LET c0 == ChangeOfCommit(Before, Before.refs[MasterRef])
        due == {k \in DOMAIN DepotThen : k > c0 /\ UnderDepotPaths(k)}
        new == ChainTo(git, git.refs[MasterRef], Before.refs[MasterRef])
    IN /\ sync.failed = ""
       /\ \A i \in DOMAIN sync.todo : sync.todo[i] > c0
       /\ \A k \in DOMAIN new : new[k] # 0
       /\ Len(new) = Cardinality(due)
       /\ {ChangeOfCommit(git, new[k]) : k \in DOMAIN new} = due
       /\ Len(git.commits) = Len(Before.commits) + Len(new)
       /\ due # {} => /\ ChangeOfCommit(git, git.refs[MasterRef]) \in due
                      /\ \A k \in due : k <= ChangeOfCommit(git, git.refs[MasterRef])

Imported == FastImport(Before, Stream)

\* The commit that record i of the stream creates
CommitIdOf(i) == Len(Before.commits) + Cardinality({k \in Commits : k <= i})

\* The files of changelist c under a depot path, and the depot branches
\* they are integrated from
EntriesUnder(c, prefix) ==
    {k \in DOMAIN DepotThen[c] : StartsWith(DepotThen[c][k].path, prefix)}
SourceBranches(c, ks) ==
    {sb \in {Main, BranchB} :
        \E k \in ks : StartsWith(DepotThen[c][k].src, DepotRoot \o sb \o Slash)}

\* Commit i of the stream is the first one of the run on its branch, the
\* branch was imported before, the majority of the files of its changelist
\* on the branch are integrated, and all of them from one branch that was
\* imported before
MergeCase(i) ==
    LET c == Stream[i].of
        mine == EntriesUnder(c, Stream[i + 1].depotPaths[1])
        integ == {k \in mine : DepotThen[c][k].src # <<>>}
        from == SourceBranches(c, integ)
    IN /\ sync.detectBranches /\ c # 0
       /\ Stream[i].ref \in DOMAIN Before.refs
       /\ \A k \in Commits : k < i => Stream[k].ref # Stream[i].ref
       /\ 2 * Cardinality(integ) > Cardinality(mine)
       /\ Cardinality(from) = 1
       /\ \A sb \in from : gitRefForBranch(sb) \in DOMAIN Before.refs

\* Commit i has the previous tip of its branch as first parent and, as
\* merge parent, the commit of the source branch that imported the newest
\* changelist of the integrated files
MergeResult(i) ==
    LET c == Stream[i].of
        mine == EntriesUnder(c, Stream[i + 1].depotPaths[1])
        integ == {k \in mine : DepotThen[c][k].src # <<>>}
        sb == CHOOSE b \in SourceBranches(c, integ) : TRUE
        resolved == SeqMax([k \in 1..Len(DepotThen[c]) |->
                              IF k \in integ THEN LastChangeOf(DepotThen, DepotThen[c][k].src, c)
                              ELSE 0])
        merged == Imported.commits[CommitIdOf(i)].merge
    IN /\ Stream[i].from = Before.refs[Stream[i].ref]
       /\ Stream[i].merge # <<>>
       /\ merged # 0
       /\ ChangeOfCommit(Imported, merged) = resolved
       /\ IsAncestor(Imported.commits, merged, Imported.refs[gitRefForBranch(sb)])

\* C8: under branch detection the first commit of the run on a branch that
\* was imported before, for a changelist that is a merge from one branch
\* that was imported before, has a "from" line with the previous tip of
\* the branch and a "merge" line with the commit of the source branch for
\* the source changelist.
C8_MergeHasFromAndMerge ==
    \A i \in Commits : MergeCase(i) => MergeResult(i)

\* A merge into refs/remotes/p4/master that got both lines
C8_MergedIntoMaster ==
    \E i \in Commits : MergeCase(i) /\ MergeResult(i) /\ Stream[i].ref = MasterRef

\* A merge into an imported branch that got no merge line
C8_MergeLineMissing ==
    \E i \in Commits : MergeCase(i) /\ Stream[i].merge = <<>>

\* The tag records of the stream
Tags == {i \in DOMAIN Stream : Stream[i].kind = "tag"}

\* C10: when a commit was made for a changelist that indexes a label, and
\* the label has files on the branch of the commit, a tag is emitted if the
\* number of those files equals the number of files of the label or
\* fuzzyTags is set, and otherwise a mismatch is printed and no tag is
\* emitted.
C10_TagWhenCountsMatch ==
    /\ \A k \in DOMAIN sync.labelLog :
          LET e == sync.labelLog[k]
          IN e.onBranch > 0 =>
                IF e.onBranch = e.inLabel \/ sync.fuzzyTags THEN e.did = "tag"
                ELSE e.did = "warn"
    /\ Cardinality(Tags) = Cardinality({k \in DOMAIN sync.labelLog : sync.labelLog[k].did = "tag"})

\* A label whose files are all on the branch of the commit, for which a
\* mismatch was printed
C10_CompleteLabelNotTagged ==
    \E k \in DOMAIN sync.labelLog :
        LET e == sync.labelLog[k]
        IN e.onBranch > 0 /\ e.onBranch = e.inLabel /\ ~sync.fuzzyTags /\ e.did = "warn"

\* A label that was tagged because fuzzyTags is set
C10_FuzzyTagged ==
    /\ sync.fuzzyTags /\ Tags # {}
    /\ \E k \in DOMAIN sync.labelLog : sync.labelLog[k].did = "tag"

\* The files the engine worked on for the last commit it applied
Batch == sub.editedFiles \cup sub.filesToAdd \cup sub.filesToDelete

\* C7: when the last commit was skipped because its patch did not apply, or
\* the user aborted at the submit template, and the command did not die,
\* no file of the commit is open in the depot client and the files it was
\* to add are not in the workspace.
C7_RevertedOnAbort ==
    (sub.state \in {"running", "done"} /\ (sub.skipped \/ sub.abort)) =>
        /\ \A f \in Batch : f \notin DOMAIN client.opened
        /\ \A f \in sub.filesToAdd : f \notin client.disk

\* An aborted commit whose edited and added files were reverted
C7_EditsReverted ==
    /\ sub.state = "done" /\ sub.abort
    /\ sub.editedFiles # {} /\ sub.filesToAdd # {}
    /\ C7_RevertedOnAbort

\* An aborted commit that leaves a file open for delete
C7_DeleteLeftOpen ==
    /\ sub.state = "done" /\ sub.abort
    /\ \E f \in sub.filesToDelete : f \in DOMAIN client.opened /\ client.opened[f] = "delete"

\* The path of a file of a split relative to the depot path
RelPath(f) == StripPrefix(f.targetPath, DepotRoot)

\* Branch a received a file that lies under branch other
Received(a, other) ==
    /\ a \in DOMAIN spl.branches
    /\ \E i \in DOMAIN spl.branches[a] : StartsWith(RelPath(spl.branches[a][i]), other \o Slash)

\* C9: when the branch mapping holds a branch and a branch below it, the
\* upper branch receives no file that lies under the lower one; and a
\* branch receives no file of a branch whose name only begins like its own.
C9_PrefixDisjoint ==
    spl.state = "split" =>
        \A a, other \in DOMAIN spl.known :
            (a # other /\ StartsWith(other, a)) => ~Received(a, other)

\* The part of C9 about names that only begin alike ("x/a" and "x/a-")
C9_SimilarNamesApart ==
    spl.state = "split" =>
        \A a, other \in DOMAIN spl.known :
            (a # other /\ StartsWith(other, a) /\ ~StartsWith(other, a \o Slash))
                => ~Received(a, other)

\* "x/a" and "x/a-" are both known and both received their file
C9_SimilarNamesSplit ==
    /\ spl.state = "split"
    /\ {SplitA, SplitADash} \subseteq DOMAIN spl.known
    /\ {SplitA, SplitADash} \subseteq DOMAIN spl.branches

\* "x/a" and "x/a/b" are both known and "x/a" received the file of "x/a/b"
C9_NestedReceived ==
    /\ spl.state = "split"
    /\ {SplitA, SplitAB} \subseteq DOMAIN spl.known
    /\ Received(SplitA, SplitAB)

----------------------------------------------------------------------------
(* Properties of the files of the import, stated over the stream of the    *)
(* last sync command.                                                      *)

\* The file lines of the commits of the stream on ref r
LinesOn(r) ==
    {l \in UNION {Range(Stream[i].files) : i \in Commits} :
        \E i \in Commits : Stream[i].ref = r /\ l \in Range(Stream[i].files)}

\* The changelists of the file revisions that were emitted on ref r
EmittedOn(r) == {ChangeOfRev(DepotThen, l.depotFile, l.rev) : l \in LinesOn(r)}

\* The changelists the notes of the commits on ref r record
NotedOn(r) == {Stream[i + 1].change : i \in {k \in Commits : Stream[k].ref = r}}

SetMax(s) == IF s = {} THEN 0 ELSE CHOOSE x \in s : \A y \in s : y <= x

\* C11: for each import branch the highest change of the notes of its
\* commits is the highest changelist of which an M or D line was emitted
\* on the branch, and no note records a changelist of which no file line
\* was emitted on the branch.
C11_ChangeCoverage ==
    \A i \in Commits :
        /\ SetMax(NotedOn(Stream[i].ref)) = SetMax(EmittedOn(Stream[i].ref))
        /\ NotedOn(Stream[i].ref) \subseteq EmittedOn(Stream[i].ref)

\* A commit without a file line, with a note that records its changelist
C11_NoteWithoutFiles ==
    \E i \in Commits :
        /\ Stream[i].of # 0
        /\ Stream[i].files = <<>>
        /\ Stream[i + 1].change = Stream[i].of
        /\ EmittedOn(Stream[i].ref) = {}
----------------------------------------------------------------------------
(* The order of the lines of a commit and of its note.                     *)

LineKeys(lines) == [j \in DOMAIN lines |-> lines[j].k]

FileOps(files) == [j \in DOMAIN files |-> files[j].op]

\* C12: every commit written with at least one file line consists of, in
\* this order, "commit <ref>", "mark :N", "committer", the message, "from"
\* if and only if a parent is given, "merge" if and only if a merge parent
\* was resolved, the file operations; the record after it is the notes
\* commit: "commit refs/notes/git-p4", "mark :N+1", "committer", the
\* message, "from" if and only if a note parent is given, "N inline :N" and
\* the provenance data
C12_RecordOrder ==
    \A i \in Commits :
        Stream[i].files # <<>> =>
            /\ LineKeys(Stream[i].lines)
                   = << "commit", "mark", "committer", "data" >>
                     \o (IF Stream[i].from # 0 THEN << "from" >> ELSE <<>>)
                     \o (IF Stream[i].merge # <<>> THEN << "merge" >> ELSE <<>>)
                     \o FileOps(Stream[i].files)
                     \o << "" >>
            /\ Stream[i].lines[2].n = Stream[i].mark
            /\ i + 1 \in Notes
            /\ LineKeys(Stream[i + 1].lines)
                   = << "commit", "mark", "committer", "data" >>
                     \o (IF Stream[i + 1].from # 0 THEN << "from" >> ELSE <<>>)
                     \o << "N", "data" >>
            /\ Stream[i + 1].lines[2].n = Stream[i].mark + 1
            /\ Stream[i + 1].lines[Len(Stream[i + 1].lines) - 1].n = Stream[i].mark

\* A commit with file lines, a parent and a merge parent, and a note with a
\* note parent
C12_FromAndMerge ==
    \E i \in Commits :
        /\ Stream[i].files # <<>>
        /\ Stream[i].from # 0
        /\ Stream[i].merge # <<>>
        /\ Stream[i + 1].from # 0

----------------------------------------------------------------------------
(* The mode of the file lines.                                             *)

\* The depot type of the revision a file line was written for
TypeOfLine(l) == P4Print(depot.changes, l.depotFile, l.rev).type

\* The executable types among the types of the depot's files: "text+kx",
\* "kxtext", "xtext" and "text+x"
ExecTypes ==
    { TextType \o <<"+", "k", "x">>, <<"k", "x">> \o TextType,
      <<"x">> \o TextType, TextType \o <<"+", "x">> }

\* C13: every file line that is not a deletion has mode 755 if and only if
\* the depot type of the file is an executable type; of the others a
\* symlink has mode 120000 and every other file 644
C13_ExecBit ==
    \A i \in Commits : \A j \in DOMAIN Stream[i].files :
        Stream[i].files[j].op = "M" =>
            /\ Stream[i].files[j].mode = "755"
                   <=> TypeOfLine(Stream[i].files[j]) \in ExecTypes
            /\ TypeOfLine(Stream[i].files[j]) \notin ExecTypes =>
                   Stream[i].files[j].mode
                      = IF TypeOfLine(Stream[i].files[j]) = SymlinkType
                        THEN "120000" ELSE "644"

\* One commit with a file of mode 644 and a file of mode 755
C13_PlainAndExec ==
    \E i \in Commits : \E j, k \in DOMAIN Stream[i].files :
        /\ Stream[i].files[j].op = "M" /\ Stream[i].files[j].mode = "644"
        /\ Stream[i].files[k].op = "M" /\ Stream[i].files[k].mode = "755"
        /\ TypeOfLine(Stream[i].files[k]) = TextType \o <<"+", "x">>

----------------------------------------------------------------------------
(* Keyword masking.                                                        *)

ContainsSeq(s, part) ==
    \E i \in 0..(Len(s) - Len(part)) : SubSeq(s, i + 1, i + Len(part)) = part

\* The type has the modifier +ko
HasKo(type) == ContainsSeq(type, <<"+", "k", "o">>)

\* The type has the modifier +k (a k among its modifiers that is not the k
\* of ko), or is one of the old names ktext and kxtext
HasK(type) ==
    \/ type \in {<<"k">> \o TextType, <<"k", "x">> \o TextType}
    \/ \E i, j \in DOMAIN type :
          /\ i < j /\ type[i] = "+" /\ type[j] = "k"
          /\ (j = Len(type) \/ type[j + 1] # "o")

\* The text holds an expanded keyword of the names: "$", the name, ":",
\* and a closing "$"
Expanded(text, names) ==
    \E i, j \in DOMAIN text :
        /\ i + 2 < j
        /\ text[i] = "$" /\ text[i + 1] \in names /\ text[i + 2] = ":"
        /\ text[j] = "$"

\* C14: the content written for a file of a type with +ko holds no
\* expanded Id or Header keyword; the content written for a file of a type
\* with +k holds no expanded Id, Header, Author, Date, DateTime, Change,
\* File or Revision keyword; the content of a text file of another type is
\* the content of the depot
C14_KeywordsMasked ==
    \A i \in Commits : \A j \in DOMAIN Stream[i].files :
        Stream[i].files[j].op = "M" =>
            /\ HasKo(TypeOfLine(Stream[i].files[j])) =>
                   ~Expanded(Stream[i].files[j].data, {"Id", "Header", "id", "header"})
            /\ HasK(TypeOfLine(Stream[i].files[j])) =>
                   ~Expanded(Stream[i].files[j].data,
                             {"Id", "Header", "Author", "Date", "DateTime",
                              "Change", "File", "Revision"})
            /\ ( /\ ~HasKo(TypeOfLine(Stream[i].files[j]))
                 /\ ~HasK(TypeOfLine(Stream[i].files[j]))
                 /\ EndsWith(TypeOfLine(Stream[i].files[j]), TextType) ) =>
                   Stream[i].files[j].data
                      = P4Print(depot.changes, Stream[i].files[j].depotFile,
                                Stream[i].files[j].rev).data

\* A file of type text+kx written with its expanded Id and Author keywords
C14_ExpandedInKx ==
    \E i \in Commits : \E j \in DOMAIN Stream[i].files :
        /\ Stream[i].files[j].op = "M"
        /\ TypeOfLine(Stream[i].files[j]) = TextType \o <<"+", "k", "x">>
        /\ Expanded(Stream[i].files[j].data, {"Id"})
        /\ Expanded(Stream[i].files[j].data, {"Author"})

----------------------------------------------------------------------------
(* Renames in a submit.                                                    *)

\* The rename entries of the commit that was applied last
Renames ==
    IF sub.state = "none" THEN {}
    ELSE {sub.diffs[i] : i \in {j \in DOMAIN sub.diffs : sub.diffs[j].status = "R"}}

\* "integrate src dst" was sent, and "edit dst" after it
IntegrateThenEdit(d) ==
    \E a, b \in DOMAIN client.log :
        /\ a < b
        /\ client.log[a] = Cmd("integrate", d.src, d.dst)
        /\ client.log[b] = Cmd("edit", <<>>, d.dst)

\* The file is in the depot with an executable type
DepotExec(f) == f \in DOMAIN client.types /\ client.types[f] \in ExecTypes

\* C15: for every rename entry of the commit applied last, "integrate src
\* dst" and then "edit dst" were sent, dst is among the edited files and
\* src among the files to delete, and once the changelist is submitted the
\* type of dst in the depot is executable if and only if the destination
\* mode of the entry is
C15_RenameOnSubmit ==
    \A d \in Renames :
        /\ IntegrateThenEdit(d)
        /\ d.dst \in sub.editedFiles
        /\ d.src \in sub.filesToDelete
        /\ sub.submitted => (DepotExec(d.dst) <=> d.dst_mode = Mode755)

\* A rename to an executable file whose patch was skipped: the changelist
\* that was submitted deletes the source, and the depot has no destination
C15_SourceDeletedOnly ==
    \E d \in Renames :
        /\ sub.skipped /\ sub.submitted
        /\ d.dst_mode = Mode755
        /\ d.src \notin client.have
        /\ d.dst \notin client.have

----------------------------------------------------------------------------
(* Notes read back.                                                        *)

\* C16: when extractSettingsFromNotes was called with a commit whose note
\* commit() wrote, the dict it returned holds under depot-paths the list
\* of depot paths and under change the changelist number commit() was
\* given; when it was called with a commit that has no note under
\* refs/notes/git-p4, the dict has no key depot-paths, whatever notes
\* refs/notes/commits holds
C16_RoundTrip ==
    nt.read.commit # 0 =>
        IF nt.read.commit \in DOMAIN nt.written
        THEN /\ DepotPathsKey \in DOMAIN nt.read.values
             /\ nt.read.values[DepotPathsKey] = nt.written[nt.read.commit].depotPaths
             /\ ChangeKey \in DOMAIN nt.read.values
             /\ StrToInt(nt.read.values[ChangeKey]) = nt.written[nt.read.commit].change
        ELSE DepotPathsKey \notin DOMAIN nt.read.values

\* The note of the depot path //d/a,b/ read back as the two paths //d/a
\* and b/
C16_PathCutAtComma ==
    /\ nt.read.commit \in DOMAIN nt.written
    /\ nt.written[nt.read.commit].depotPaths = <<CommaPath>>
    /\ DepotPathsKey \in DOMAIN nt.read.values
    /\ nt.read.values[DepotPathsKey] = <<DepotRoot \o <<"a">>, <<"b", "/">>>>

----------------------------------------------------------------------------
(* Merge parents among the commits of the run.                             *)

\* Commit j of the stream was written for changelist c on the ref of depot
\* branch b
WrittenFor(j, c, b) ==
    /\ Stream[j].ref = gitRefForBranch(b)
    /\ Stream[j + 1].change = c

\* Commit i is a merge whose parent getMergeParentCommit resolved to the
\* changelist and the branch of commit j, written earlier in the run
ResolvedTo(i, j) ==
    /\ j < i
    /\ Stream[i].resolved[2] # <<>>
    /\ WrittenFor(j, Stream[i].resolved[1], Stream[i].resolved[2])

\* C17: every commit of the run is recorded in changeListCommits under its
\* branch and changelist with its mark; a merge whose resolved parent is
\* the branch and changelist of a commit written earlier in the run has
\* the line "merge :<mark of that commit>", whatever the branch, and a
\* merge line with a mark is written for such a parent only
C17_MergeFromRecord ==
    /\ \A j \in Commits :
          /\ StripPrefix(Stream[j].ref, getRefsPrefix) \in DOMAIN sync.changeListCommits
          /\ Stream[j + 1].change
                \in DOMAIN sync.changeListCommits[StripPrefix(Stream[j].ref, getRefsPrefix)]
    /\ \A i, j \in Commits :
          ResolvedTo(i, j) => Stream[i].merge = <<"mark", Stream[j].mark>>
    /\ \A i \in Commits :
          (Stream[i].merge # <<>> /\ Stream[i].merge[1] = "mark") =>
              \E j \in Commits : ResolvedTo(i, j)

\* A merge from depot branch main, whose changelist was committed to
\* refs/remotes/p4/master earlier in the run, written without a merge line
C17_MainNotFound ==
    \E i, j \in Commits :
        /\ ResolvedTo(i, j)
        /\ Stream[i].resolved[2] = Main
        /\ Stream[j].ref = MasterRef
        /\ Stream[i].merge = <<>>

(***************************************************************************)
(* Lookups and the driver                                                  *)
(***************************************************************************)

\* The commits written before the lookup
Earlier(l) == {j \in Commits \cup Notes : j <= l.written}

\* A checkpoint was written after record j and before the lookup
CheckpointAfter(j, l) ==
    \E p \in DOMAIN Stream : j < p /\ p <= l.written /\ Stream[p].kind = "checkpoint"

\* C18: every lookup in the repository that depends on commits written
\* earlier in the same run (the branch-parent search of importNewBranch and
\* the merge-parent search of commit) happens after a checkpoint was
\* written after those commits and after fast-import has persisted them.
C18_LookupAfterPersisted ==
    \A k \in DOMAIN sync.lookups :
        \A j \in Earlier(sync.lookups[k]) :
            /\ CheckpointAfter(j, sync.lookups[k])
            /\ j <= sync.lookups[k].persisted

\* A lookup made after the checkpoint was written, while fast-import had
\* not yet read it: the repository does not show a commit of this run
C18_LookupBeforeDriver ==
    \E k \in DOMAIN sync.lookups :
        \E j \in Commits :
            /\ j <= sync.lookups[k].written
            /\ CheckpointAfter(j, sync.lookups[k])
            /\ sync.lookups[k].persisted < j

(***************************************************************************)
(* The tree filter                                                         *)
(***************************************************************************)

\* The entries the lines of the filter keep: entry i is kept when line i is
\* not empty, and gets line i as its targetPath
Aligned(files, lines) ==
    LET kept(i) == i <= Len(lines) /\ lines[i] # <<>>
        idx == SelectSeq([i \in DOMAIN files |-> i], kept)
    IN [k \in DOMAIN idx |-> WithTargetPath(files[idx[k]], lines[idx[k]])]

\* The entries of changelist c under the depot paths of the last command,
\* and those the tree filter of the command keeps
EntriesOf(c) == FilesUnder(sync, P4Describe(DepotThen, c))
KeptOf(c) == Aligned(EntriesOf(c), FilteredFiles(sync.treeFilter, PathsOf(EntriesOf(c))))

\* The entries splitFilesIntoBranches gives to the branches
SplitEntries(c) ==
    UNION {Range(splitFilesIntoBranches(sync, P4Describe(DepotThen, c))[b]) :
              b \in DOMAIN splitFilesIntoBranches(sync, P4Describe(DepotThen, c))}

\* C19: the i-th file entry of a changelist is dropped if the i-th line of
\* the output of the tree filter is empty, and otherwise gets that line as
\* its targetPath and keeps its path, revision, action and type, without
\* branch detection (extractFilesFromCommit) and with it
\* (splitFilesIntoBranches, for the changelists the command imported one
\* by one).
C19_FilterAligned ==
    runs > 0 =>
        \A c \in DOMAIN DepotThen :
            IF sync.detectBranches /\ c \in Range(sync.todo)
            THEN SplitEntries(c) \subseteq Range(KeptOf(c))
            ELSE extractFilesFromCommit(sync, P4Describe(DepotThen, c)) = KeptOf(c)

\* With branch detection and a filter that drops f and keeps g, the commit
\* holds the content of //d/main/f under the name g
C19_DroppedGetsNextLine ==
    \E i \in Commits :
        \E l \in Range(Stream[i].files) :
            /\ sync.detectBranches
            /\ TreeFilterLine(sync.treeFilter, MainF) = <<>>
            /\ l.op = "M"
            /\ l.depotFile = MainF
            /\ l.path = FileG

(***************************************************************************)
(* The client spec                                                         *)
(***************************************************************************)

\* The first entry of clientSpecDirs whose directory is a prefix of path is
\* an entry that includes
FirstMatchIncludes(path, clientSpecDirs) ==
    \E i \in DOMAIN clientSpecDirs :
        /\ StartsWith(path, clientSpecDirs[i].dir)
        /\ clientSpecDirs[i].len > 0
        /\ \A j \in 1..(i - 1) : ~StartsWith(path, clientSpecDirs[j].dir)

\* The entries of clientSpecDirs are in descending order of length
Descending(clientSpecDirs) ==
    \A i \in DOMAIN clientSpecDirs : \A j \in DOMAIN clientSpecDirs :
        i < j => Len(clientSpecDirs[i].dir) >= Len(clientSpecDirs[j].dir)

\* C20: the entries of the client spec are ordered by descending length of
\* prefix, and of the files of a changelist the command keeps exactly those
\* of which the first entry that matches the depot path includes, all of
\* them if the client spec is empty and none that matches no entry.
C20_FirstMatchWins ==
    runs > 0 =>
        /\ Descending(sync.clientSpecDirs)
        /\ \A c \in DOMAIN DepotThen :
              LET wanted(f) == \/ sync.clientSpecDirs = <<>>
                               \/ FirstMatchIncludes(f.path, sync.clientSpecDirs)
              IN filterClientSpec(KeptOf(c), sync.clientSpecDirs)
                     = SelectSeq(KeptOf(c), wanted)

\* The view excludes //d/ and includes //d/main/: the commit of a
\* changelist that adds //d/main/f has no line for the file
C20_IncludedUnderExcluded ==
    \E i \in Commits :
        /\ sync.treeFilter = ""
        /\ Stream[i].of \in DOMAIN DepotThen
        /\ \E k \in DOMAIN DepotThen[Stream[i].of] :
              /\ DepotThen[Stream[i].of][k].path = MainF
              /\ DepotThen[Stream[i].of][k].type = TextType
        /\ FirstMatchIncludes(MainF, sync.clientSpecDirs)
        /\ \A l \in Range(Stream[i].files) : l.depotFile # MainF

(***************************************************************************)
(* Changelists without files                                               *)
(***************************************************************************)

\* The entries of the changelist of commit i that are left to commit: kept
\* by the tree filter, under a branch prefix of the commit (the depot paths
\* of its note) and included by the client spec
LeftToCommit(i) ==
    {f \in Range(KeptOf(Stream[i].of)) :
        /\ \E j \in DOMAIN Stream[i + 1].depotPaths :
              StartsWith(f.targetPath,
                         applyFilter(sync.treeFilter, Stream[i + 1].depotPaths[j]))
        /\ ClientSpecIncludes(f.path, sync.clientSpecDirs)}

\* C21: a changelist that has no files left to commit is ignored: no commit
\* is written for it, and changeListCommits holds the marks of written
\* commits only.
C21_EmptyIgnored ==
    /\ \A i \in Commits :
          Stream[i].of \in DOMAIN DepotThen => LeftToCommit(i) # {}
    /\ \A b \in DOMAIN sync.changeListCommits :
          \A c \in DOMAIN sync.changeListCommits[b] :
              \E i \in Commits : Stream[i].mark = sync.changeListCommits[b][c]

\* The client spec excludes every file of a changelist, and the commit and
\* its note are written, with two marks used
C21_CommitOfNothing ==
    \E i \in Commits :
        /\ Stream[i].of \in DOMAIN DepotThen
        /\ \E f \in Range(KeptOf(Stream[i].of)) : f.type = TextType
        /\ sync.clientSpecDirs # <<>>
        /\ LeftToCommit(i) = {}
        /\ Stream[i].files = <<>>
        /\ Stream[i + 1].kind = "note"
        /\ sync.markCounter >= Stream[i].mark + 2

----------------------------------------------------------------------------
(* The merge specification: isMergeCommit applied to the file entries of   *)
(* a changelist, of which only the action matters.                         *)
(*   mrg.files   the file entries                                          *)
(*   mrg.asked   isMergeCommit was called                                  *)
(*   mrg.merge   what it returned                                          *)

MaxMergeFiles == 4     \* file entries of the changelist

MergeActions == {"add", "edit", "delete", "branch", "integrate"}

\* The depot reports one more file of the changelist
MergeFile ==
    /\ ~mrg.asked
    /\ Len(mrg.files) < MaxMergeFiles
    /\ \E a \in MergeActions : mrg' = [mrg EXCEPT !.files = Append(@, [action |-> a])]
    /\ UNCHANGED <<depot, git, sync, runs, hist, sub, client, spl, nt, rdr, scratch>>

\* self.isMergeCommit(new_files)
MergeAsk ==
    /\ ~mrg.asked
    /\ mrg' = [mrg EXCEPT !.asked = TRUE, !.merge = isMergeCommit(mrg.files)]
    /\ UNCHANGED <<depot, git, sync, runs, hist, sub, client, spl, nt, rdr, scratch>>

MergeNext == MergeFile \/ MergeAsk

MergeSpec == NoteInit /\ [][MergeNext]_vars

\* The number of entries of mrg.files with action branch or integrate
MergeCount == Cardinality({i \in DOMAIN mrg.files :
                              mrg.files[i].action \in {"branch", "integrate"}})

\* C22: isMergeCommit returns true if and only if strictly more than half
\* of the file entries have action branch or integrate: for n entries of
\* which k have such an action the result is 2 * k > n.
C22_StrictMajority ==
    mrg.asked => (mrg.merge <=> 2 * MergeCount > Len(mrg.files))

\* Two of three entries are integrations, and the change is a merge
C22_TwoOfThree ==
    /\ mrg.asked
    /\ Len(mrg.files) = 3
    /\ MergeCount = 2
    /\ mrg.merge

----------------------------------------------------------------------------
(* The integration specification: the first import, with branch detection, *)
(* of a depot in which a changelist can integrate files from two branches. *)

IntegShapes ==
    ChangeShapes \cup { <<Touch(MainF, BF), Touch(MainG, MainF)>>,
                        <<Touch(MainG, MainF), Touch(MainF, BF)>> }

\* A user submits a changelist before the import
IntegSubmit ==
    /\ runs = 0
    /\ Len(depot.changes) < MaxChanges
    /\ \E sh \in IntegShapes :
          /\ \A i \in DOMAIN sh :
                sh[i].src # <<>> => RevAt(depot.changes, sh[i].src, Len(depot.changes)) > 0
          /\ depot' = [depot EXCEPT !.changes = Append(@, NewEntries(@, sh))]
    /\ UNCHANGED <<git, sync, runs, hist, sub, client, spl, nt, mrg, rdr, scratch>>

IntegSync ==
    \E args \in ArgSets \ {<<>>} :
        /\ runs = 0
        /\ SyncIn(args, [treeFilter |-> "", fuzzyTags |-> FALSE, detectBranches |-> TRUE,
                         detectLabels |-> FALSE, useClientSpec |-> FALSE], <<>>, 0)

IntegNext == IntegSubmit \/ IntegSync

IntegSpec == Init /\ [][IntegNext]_vars

\* The files commit i has of its changelist, those of them that are
\* integrated, and the branches these come from
MineOf(i) == EntriesUnder(Stream[i].of, Stream[i + 1].depotPaths[1])
IntegOf(i) == {k \in MineOf(i) : DepotThen[Stream[i].of][k].src # <<>>}
FromOf(i) == SourceBranches(Stream[i].of, IntegOf(i))

\* The newest changelist of the sources of the files of commit i that are
\* integrated from branch sb
HighestSource(i, sb) ==
    SeqMax([k \in 1..Len(DepotThen[Stream[i].of]) |->
              IF k \in IntegOf(i)
                 /\ StartsWith(DepotThen[Stream[i].of][k].src, DepotRoot \o sb \o Slash)
              THEN LastChangeOf(DepotThen, DepotThen[Stream[i].of][k].src, Stream[i].of - 1)
              ELSE 0])

\* C23: getMergeParentCommit identifies a merge parent (a branch and a
\* changelist) only when the integrations of the change come from exactly
\* one source branch, and the changelist is then the highest source
\* changelist of the integrations from that branch; when the integrations
\* come from two or more branches no merge parent is identified and the
\* commit is written without a merge line.
C23_OneSourceBranch ==
    \A i \in Commits :
        (sync.detectBranches /\ Stream[i].of \in DOMAIN DepotThen) =>
            /\ Stream[i].resolved[2] # <<>> =>
                  /\ FromOf(i) = {Stream[i].resolved[2]}
                  /\ Stream[i].resolved[1] = HighestSource(i, Stream[i].resolved[2])
            /\ Cardinality(FromOf(i)) >= 2 =>
                  /\ Stream[i].resolved[2] = <<>>
                  /\ Stream[i].merge = <<>>

\* A commit whose files are integrated from main and from b, for which b
\* was identified as the merge parent and a merge line was written
C23_FirstOfTwoBranches ==
    \E i \in Commits :
        /\ sync.detectBranches
        /\ Stream[i].of \in DOMAIN DepotThen
        /\ FromOf(i) = {Main, BranchB}
        /\ Stream[i].resolved[2] = BranchB
        /\ Stream[i].merge # <<>>

(***************************************************************************)
(* The first commit of a new branch                                        *)
(***************************************************************************)

\* Commit i is the first commit of the run on its ref, with branch
\* detection, and the ref did not exist before the run
FirstOfNewBranch(i) ==
    /\ sync.detectBranches
    /\ Stream[i].ref \notin DOMAIN Before.refs
    /\ \A k \in Commits : k < i => Stream[k].ref # Stream[i].ref

\* C24: the first commit on a newly detected branch is written without a
\* "from" line, also after importNewBranch has recorded the commit of the
\* source branch in initialParents: the branch starts from a clean tree.
C24_NewBranchNoFrom ==
    \A i \in Commits : FirstOfNewBranch(i) => Stream[i].from = 0

\* The first commit of new branch b, written after the commit of the source
\* branch was looked up, has that commit in its "from" line
C24_NewBranchFromSource ==
    \E i \in Commits :
        /\ FirstOfNewBranch(i)
        /\ Stream[i].ref = gitRefForBranch(BranchB)
        /\ sync.lookups # <<>>
        /\ Stream[i].from \in DOMAIN Before.commits
        /\ IsAncestor(Before.commits, Stream[i].from, Before.refs[MasterRef])

(***************************************************************************)
(* Marks                                                                   *)
(***************************************************************************)

\* The number of commits of the stream up to record i
CommitsUpTo(i) == Cardinality({k \in Commits : k <= i})

\* C25: the k-th commit of a run has mark 2k - 1, its note has mark 2k and
\* annotates mark 2k - 1, and markCounter is past the marks of all of
\* them by one: no mark is assigned twice; every value of
\* changeListCommits is the mark of a commit written on the import branch
\* and for the changelist it is stored under.
C25_TwoMarksPerCommit ==
    /\ sync.markCounter = 2 * Cardinality(Commits) + 1
    /\ \A i \in Commits :
          /\ Stream[i].mark = 2 * CommitsUpTo(i) - 1
          /\ Stream[i + 1].kind = "note"
          /\ Stream[i + 1].mark = Stream[i].mark + 1
          /\ Stream[i + 1].target = Stream[i].mark
    /\ \A i, j \in Commits \cup Notes : i # j => Stream[i].mark # Stream[j].mark
    /\ \A b \in DOMAIN sync.changeListCommits :
          \A c \in DOMAIN sync.changeListCommits[b] :
              \E i \in Commits :
                  /\ Stream[i].mark = sync.changeListCommits[b][c]
                  /\ Stream[i].ref = getRefsPrefix \o b
                  /\ Stream[i + 1].change = c

\* A run that wrote three commits on two branches
C25_ThreeCommits ==
    /\ Cardinality(Commits) = 3
    /\ sync.markCounter = 7
    /\ Cardinality(DOMAIN sync.changeListCommits) = 2

----------------------------------------------------------------------------
(* The reader specification: P4FileReader.next on the records that         *)
(* "p4 -G print" writes: for each file a header record, then the content   *)
(* of the file in records that hold only "code" and "data".                *)
(*   rdr.sent      what the depot sends: per file its path, its type, the  *)
(*                 chunks of its content and the file "p4 print -o" writes *)
(*   rdr.asked     the paths of self.pathMap (the files asked for)         *)
(*   rdr.stream    the records of self.reader                              *)
(*   rdr.pos       the number of records read from self.reader             *)
(*   rdr.leftover  self.leftover (<<>>: None)                              *)
(*   rdr.out       the records next() has returned: path and data          *)
(*   rdr.state     "none", "reading", "done" (StopIteration), "dead"       *)

MaxReadFiles == 2     \* files the depot prints

ReadPaths == {MainF, MainG, BF}
ReadTypes == {TextType, TextType \o <<"+", "k">>, Utf16Type}

\* The ways the depot cuts the content of a file into records
ChunkLists ==
    { <<>>,
      << <<"r">> >>,
      << <<"r">>, <<"s">> >>,
      << <<"$", "Id", ":">>, <<"r", "$">> >> }

\* The concatenation of texts
RECURSIVE ConcatAll(_)
ConcatAll(texts) == IF texts = <<>> THEN <<>> ELSE Head(texts) \o ConcatAll(Tail(texts))

\* The file "p4 print -o" writes for a utf16 file: the content in utf16,
\* which the records hold converted
PrintToFile(chunks) == <<"BOM">> \o ConcatAll(chunks)

\* The records of one file
RecordsOf(f) ==
    << [type |-> f.type, data |-> <<>>, depotFile |-> f.path, code |-> "stat"] >>
    \o [i \in DOMAIN f.chunks |->
           [type |-> <<>>, data |-> f.chunks[i], depotFile |-> <<>>, code |-> "text"]]

RECURSIVE StreamOf(_)
StreamOf(sent) == IF sent = <<>> THEN <<>> ELSE RecordsOf(Head(sent)) \o StreamOf(Tail(sent))

\* record['code'] in ( 'text', 'unicode', 'binary', 'utf16' )
IsChunk(record) == record.code \in {"text", "unicode", "binary", "utf16"}

\* "for record in self.reader": the number of chunk records after the
\* first pos records
RECURSIVE ChunksAfter(_, _)
ChunksAfter(stream, pos) ==
    IF pos < Len(stream) /\ IsChunk(stream[pos + 1]) THEN 1 + ChunksAfter(stream, pos + 1)
    ELSE 0

\* The variant that forgets the record that ends the file
AfterChunksNoLeftover(r, n) ==
    IF r.pos + n < Len(r.stream)
    THEN [r EXCEPT !.pos = r.pos + n + 1, !.leftover = <<>>]
    ELSE [r EXCEPT !.pos = r.pos + n, !.leftover = <<>>]

\* The reader after the loop over the n chunk records: the record after
\* them, if there is one, is read and kept in self.leftover
AfterChunks(r, n) ==
    IF r.pos + n < Len(r.stream)
    THEN [r EXCEPT !.pos = r.pos + n + 1, !.leftover = <<r.stream[r.pos + n + 1]>>]
    ELSE [r EXCEPT !.pos = r.pos + n, !.leftover = <<>>]

\* The text of the file of header, after its n chunk records
ReaderText(r, header, n) ==
    MaskKeywords(header.type,
        IF StartsWith(header.type, Utf16Type)
        THEN PrintToFile([i \in 1..n |-> r.stream[r.pos + i].data])
        ELSE ConcatAll([i \in 1..n |-> r.stream[r.pos + i].data]))

\* One round of "while 1", r being the reader once the header is taken:
\* [r, again], again when the path of the header is not in self.pathMap
ReaderRound(r, header, n) ==
    IF header.depotFile = <<>> THEN [r |-> [r EXCEPT !.state = "dead"], again |-> FALSE]
    ELSE IF header.depotFile \in r.asked
    THEN [r |-> [AfterChunks(r, n) EXCEPT
                    !.out = Append(@, [path |-> header.depotFile,
                                       data |-> ReaderText(r, header, n)])],
          again |-> FALSE]
    ELSE [r |-> AfterChunks(r, n), again |-> TRUE]

\* P4FileReader.next
RECURSIVE P4FileReader_next(_)
P4FileReader_next(r) ==
    IF r.leftover # <<>>
    THEN LET round == ReaderRound([r EXCEPT !.leftover = <<>>], r.leftover[1],
                                  ChunksAfter(r.stream, r.pos))
         IN IF round.again THEN P4FileReader_next(round.r) ELSE round.r
    ELSE IF r.pos >= Len(r.stream) THEN [r EXCEPT !.state = "done"]
    ELSE LET round == ReaderRound([r EXCEPT !.pos = @ + 1], r.stream[r.pos + 1],
                                  ChunksAfter(r.stream, r.pos + 1))
         IN IF round.again THEN P4FileReader_next(round.r) ELSE round.r

\* The depot prints one more file
ReaderPrint ==
    /\ rdr.state = "none"
    /\ Len(rdr.sent) < MaxReadFiles
    /\ \E p \in ReadPaths, ty \in ReadTypes, chunks \in ChunkLists :
          /\ \A i \in DOMAIN rdr.sent : rdr.sent[i].path # p
          /\ rdr' = [rdr EXCEPT !.sent = Append(@, [path |-> p, type |-> ty,
                                                    chunks |-> chunks])]
    /\ UNCHANGED <<depot, git, sync, runs, hist, sub, client, spl, nt, mrg, scratch>>

\* P4FileReader.__init__: the files asked for are all the files, or all
\* but the first, that the depot prints
ReaderOpen ==
    /\ rdr.state = "none"
    /\ rdr.sent # <<>>
    /\ \E skip \in BOOLEAN :
          rdr' = [rdr EXCEPT !.state = "reading",
                             !.asked = {rdr.sent[i].path :
                                           i \in (DOMAIN rdr.sent) \ (IF skip THEN {1} ELSE {})},
                             !.stream = StreamOf(rdr.sent)]
    /\ UNCHANGED <<depot, git, sync, runs, hist, sub, client, spl, nt, mrg, scratch>>

\* "for f in reader": one call of next()
ReaderCall ==
    /\ rdr.state = "reading"
    /\ rdr' = P4FileReader_next(rdr)
    /\ UNCHANGED <<depot, git, sync, runs, hist, sub, client, spl, nt, mrg, scratch>>

ReaderStep == ReaderPrint \/ ReaderOpen \/ ReaderCall

ReaderSpec == NoteInit /\ [][ReaderStep]_vars

\* The files asked for, in the order in which the depot prints them
AskedSent == LET asked(f) == f.path \in rdr.asked IN SelectSeq(rdr.sent, asked)

\* The records next() returns, file by file, when the data of a file is
\* what data(f) says
Yields(data(_)) ==
    /\ Len(rdr.out) <= Len(AskedSent)
    /\ rdr.state = "done" => Len(rdr.out) = Len(AskedSent)
    /\ \A k \in DOMAIN rdr.out :
          /\ rdr.out[k].path = AskedSent[k].path
          /\ rdr.out[k].data = data(AskedSent[k])

\* The record that ended the last file is the last record read, it is no
\* chunk, and it is kept
LeftoverKept ==
    /\ rdr.leftover # <<>> =>
          /\ rdr.pos \in DOMAIN rdr.stream
          /\ rdr.leftover[1] = rdr.stream[rdr.pos]
          /\ ~IsChunk(rdr.leftover[1])
    /\ (rdr.state = "reading" /\ rdr.leftover = <<>> /\ rdr.out # <<>>) =>
          rdr.pos = Len(rdr.stream)

\* The chunks of a file, concatenated
ChunksOf(f) == ConcatAll(f.chunks)

\* The chunks of a file, concatenated, with the keywords masked as the
\* type of the file says; for a utf16 file the file "p4 print -o" writes
DataOf(f) ==
    MaskKeywords(f.type, IF StartsWith(f.type, Utf16Type) THEN PrintToFile(f.chunks)
                         ELSE ConcatAll(f.chunks))

\* C26 as stated: the reader yields every file asked for once, in the order
\* of the stream, with data equal to the concatenation of the chunk
\* records between its header and the next record that is no chunk, and
\* the record that ends a file is kept as the next header.
C26_ChunksConcatenated == Yields(ChunksOf) /\ LeftoverKept

\* C26, amended: as above, the data being the concatenation of the chunks
\* with the keywords masked by file type, and for a file of a utf16 type
\* the content of the file that a separate "p4 print -o" writes.
C26_ReaderAggregates == Yields(DataOf) /\ LeftoverKept

\* Two files were read, the first of two chunks, the second of type text+k
\* with a keyword that spans its two chunks and is masked
C26_TwoFilesRead ==
    /\ rdr.state = "done"
    /\ Len(rdr.out) = 2
    /\ Len(rdr.sent[1].chunks) = 2
    /\ rdr.sent[2].type = TextType \o <<"+", "k">>
    /\ rdr.sent[2].chunks = << <<"$", "Id", ":">>, <<"r", "$">> >>
    /\ rdr.out[2].data = <<"$", "Id", "$">>

(***************************************************************************)
(* Deleted files                                                           *)
(***************************************************************************)

\* The files the reader prints and yields for changelist c
YieldedOf(c) ==
    P4FileReader([d |-> [changes |-> DepotThen]], KeptOf(c), sync.clientSpecDirs)

\* The lines commit i has for depot file p
LinesFor(i, p) == {j \in DOMAIN Stream[i].files : Stream[i].files[j].depotFile = p}

\* C27: a file with a deleting action is never printed for its content,
\* and for every such file that a commit includes the commit has exactly
\* one line, "D <relPath>", and no M line.
C27_DeletedFiles ==
    runs > 0 =>
        /\ \A c \in DOMAIN DepotThen :
              \A k \in DOMAIN YieldedOf(c) :
                  YieldedOf(c)[k].file.action \notin {"delete", "purge", "move/delete"}
        /\ \A i \in Commits :
              Stream[i].of \in DOMAIN DepotThen =>
                  \A f \in LeftToCommit(i) :
                      f.action \in {"delete", "purge", "move/delete"} =>
                          /\ Cardinality(LinesFor(i, f.path)) = 1
                          /\ \A j \in LinesFor(i, f.path) :
                                /\ Stream[i].files[j].op = "D"
                                /\ Stream[i].files[j].path
                                      = stripRepoPath(sync, f.targetPath, Stream[i + 1].depotPaths)

\* A commit of a changelist that deletes //d/main/f, with its D line
C27_DeleteLine ==
    \E i \in Commits :
        /\ Stream[i].of \in DOMAIN DepotThen
        /\ Cardinality(LinesFor(i, MainF)) = 1
        /\ \E f \in LeftToCommit(i) : f.action = "delete" /\ f.path = MainF
        /\ \E j \in DOMAIN Stream[i].files :
              Stream[i].files[j].op = "D" /\ Stream[i].files[j].depotFile = MainF

----------------------------------------------------------------------------
(* The notes, the questions and the import ref of a submit.                *)

\* The commits of the batch that were applied, in the order of the batch
Applied == IF sub.state = "none" THEN {} ELSE DOMAIN sub.done

\* The commits of the batch that have a note under refs/notes/git-p4
Noted == IF sub.state = "none" THEN {} ELSE DOMAIN sub.notes

\* C28: a commit of the batch has a note only if the depot printed "Change
\* N submitted." for it, and the note then reads back as change N of the
\* depot path of the submit; a commit whose submission was aborted at the
\* template, or for which the depot printed no such line, has no note.
C28_NoteAfterSubmitted ==
    /\ \A id \in Noted :
          /\ id \in Applied
          /\ sub.done[id].said > 0
          /\ Get(ExtractSettings(sub.notes[id]), ChangeKey) = IntToStr(sub.done[id].said)
          /\ Get(ExtractSettings(sub.notes[id]), DepotPathsKey) = <<sub.depotPath>>
    /\ \A id \in Applied :
          (sub.done[id].said = 0 \/ (sub.done[id].asked /\ sub.done[id].answer = "a"))
              => id \notin Noted

\* A batch of two commits: the first was submitted and has its note, the
\* second was aborted at the template and has none
C28_NotedThenAborted ==
    /\ sub.state = "done" /\ sub.abort
    /\ Applied = {1, 2}
    /\ Noted = {1}
    /\ sub.done[1].said = 1
    /\ sub.notes[1] = NoteText(<<sub.depotPath>>, 1, <<>>)

\* C29: in a submit --auto, when the patch of a commit does not apply, the
\* user is not asked what to do, and neither that commit nor a later one
\* of the batch is submitted.
C29_AutoFailureAborts ==
    (sub.state # "none" /\ ~sub.interactive) =>
        \A id \in Applied :
            ~sub.done[id].applies =>
                /\ ~sub.done[id].prompted
                /\ \A k \in Applied : k >= id => ~sub.done[k].sent

\* A submit --auto in which the patch of the first commit did not apply:
\* the user was asked and chose to skip, the changelist of the commit was
\* submitted all the same, and so was the second commit
C29_SkippedAndSubmitted ==
    /\ sub.state = "done" /\ ~sub.interactive
    /\ Applied = {1, 2}
    /\ ~sub.done[1].applies /\ sub.done[1].prompted /\ sub.done[1].response = "s"
    /\ sub.done[1].sent /\ sub.done[2].sent
    /\ sub.p4ref = "master"

\* C30: when the template is unchanged after the editor, the commit is
\* submitted only if the user answers y; if the user answers a, the commit
\* is not submitted, no file of the commit stays open in the depot client,
\* no later commit is applied and the import ref stays where it was.
C30_UnchangedTemplate ==
    \A id \in Applied :
        sub.done[id].asked =>
            /\ sub.done[id].sent => sub.done[id].answer = "y"
            /\ sub.done[id].answer = "a" =>
                  /\ ~sub.done[id].sent
                  /\ id = Len(sub.done)
                  /\ sub.p4ref = "origin"
                  /\ \A f \in Batch : f \notin DOMAIN client.opened

\* The user answered a for the first of two commits, which deletes a file:
\* the command ended without submitting and without moving the import
\* ref, and the file is still open for delete
C30_AbortKeepsDelete ==
    /\ sub.state = "done" /\ sub.total = 2
    /\ Applied = {1}
    /\ sub.done[1].asked /\ sub.done[1].answer = "a" /\ ~sub.done[1].sent
    /\ sub.p4ref = "origin"
    /\ \E f \in sub.filesToDelete : f \in DOMAIN client.opened

----------------------------------------------------------------------------
(* Failures of a shelve.                                                   *)

\* The shelve failed: a patch did not apply and was skipped, or the user
\* aborted at the template
ShelveFailed ==
    /\ sub.state \in {"applied", "done", "died"}
    /\ sub.shelve
    /\ sub.skipped \/ sub.abort

\* The depot commands sent after revertCommit returned
AfterRevert ==
    IF sub.reverted = 0 THEN {}
    ELSE {client.log[k].name : k \in (sub.reverted + 1)..Len(client.log)}

\* C31: after a failure of a shelve no file is open in the client, the
\* changelist is still pending if and only if it was given with -c, and no
\* add, delete, reopen or shelve was sent after the revert.
C31_ShelveFailure ==
    (sub.state # "none" /\ ShelveFailed) =>
        /\ client.opened = EmptyMap
        /\ StrToInt(sub.clnumber) \in client.pending <=> sub.existingClNumber # <<>>
        /\ AfterRevert \cap {"add", "delete", "reopen", "shelve"} = {}

\* A patch did not apply to the files of the changelist given with -c and
\* was skipped: after the revert the file to delete was opened in the
\* changelist, and the changelist was shelved
C31_ShelvedAfterSkip ==
    /\ sub.state = "done" /\ sub.shelve /\ sub.skipped
    /\ sub.existingClNumber = IntToStr(ExistingCl)
    /\ {"delete", "shelve"} \subseteq AfterRevert
    /\ ExistingCl \in DOMAIN client.shelved

----------------------------------------------------------------------------
(* The scratch directory of the content filter over P4Sync.run.  Every     *)
(* sync command is a new P4Sync object; the steps of run are taken one     *)
(* after the other, and a step that dies ends the command where it is.     *)
(*   scratch.dirs              the scratch directories that exist          *)
(*   scratch.contentFilter     the option --content-filter is set          *)
(*   scratch.contentFilterDir  self.contentFilterDir (0: "")               *)
(*   scratch.made              directories the command has made            *)
(*   scratch.left              changes still to import                     *)
(*   scratch.exit              how the command ended                       *)

MaxFilterRuns == 3        \* sync commands run one after the other
MaxFilterChanges == 2     \* changes a command finds to import

\* P4Sync.cleanup
cleanup(r) ==
    IF r.contentFilterDir # 0 THEN [r EXCEPT !.dirs = @ \ {r.contentFilterDir}] ELSE r

\* How a command ends: return True, or die() and sys.exit(1)
Ended(r, exit) == [r EXCEPT !.state = "ended", !.exit = exit]

\* The start of run: tempfile.mkdtemp() when a content filter is set
ScratchStart ==
    /\ scratch.state \in {"none", "ended"}
    /\ scratch.runs < MaxFilterRuns
    /\ \E contentFilter, fileDump \in BOOLEAN :
          LET n == scratch.runs + 1
          IN scratch' = [runs |-> n, state |-> "prelude", contentFilter |-> contentFilter,
                         fileDump |-> fileDump,
                         contentFilterDir |-> IF contentFilter THEN n ELSE 0,
                         dirs |-> IF contentFilter THEN scratch.dirs \cup {n}
                                  ELSE scratch.dirs,
                         made |-> IF contentFilter THEN 1 ELSE 0,
                         left |-> 0, exit |-> "running"]
    /\ UNCHANGED <<depot, git, sync, runs, hist, sub, client, spl, nt, mrg, rdr>>

\* run up to the changes to import: a command that fails in system(), or a
\* depot path that is not the one of the previous import, ends the command
\* with sys.exit(1); no changes to import end it with return True
ScratchChanges ==
    /\ scratch.state = "prelude"
    /\ \E ok \in BOOLEAN, n \in 0..MaxFilterChanges :
          /\ ~ok => n = 0
          /\ scratch' = IF ~ok THEN Ended(scratch, "die")
                        ELSE IF n = 0 THEN Ended(scratch, "return")
                        ELSE [scratch EXCEPT !.state = "import", !.left = n]
    /\ UNCHANGED <<depot, git, sync, runs, hist, sub, client, spl, nt, mrg, rdr>>

\* One change of importChanges: it is imported, or a depot command dies, or
\* the write to fast-import raises IOError, which run catches
ScratchImport ==
    /\ scratch.state = "import" /\ scratch.left > 0
    /\ \E outcome \in {"ok", "die", "IOError"} :
          scratch' = IF outcome = "ok" THEN [scratch EXCEPT !.left = @ - 1]
                     ELSE IF outcome = "die" THEN Ended(scratch, "die")
                     ELSE Ended(cleanup(scratch), "die")
    /\ UNCHANGED <<depot, git, sync, runs, hist, sub, client, spl, nt, mrg, rdr>>

\* The end of run: gitStream.flush(), importProcess.communicate() unless
\* the stream is a dump file, self.cleanup()
ScratchEnd ==
    /\ scratch.state = "import" /\ scratch.left = 0
    /\ \E flushed \in BOOLEAN, returncode \in {0, 1} :
          /\ (~flushed \/ scratch.fileDump) => returncode = 0
          /\ scratch' = IF ~flushed THEN Ended(cleanup(scratch), "die")
                        ELSE IF returncode # 0 THEN Ended(cleanup(scratch), "die")
                        ELSE Ended(cleanup(scratch), "return")
    /\ UNCHANGED <<depot, git, sync, runs, hist, sub, client, spl, nt, mrg, rdr>>

ScratchNext == ScratchStart \/ ScratchChanges \/ ScratchImport \/ ScratchEnd

ScratchSpec == NoteInit /\ [][ScratchNext]_vars

\* C32: when a sync command with a content filter has ended, it has made
\* one scratch directory and that directory is gone, however it ended.
C32_ScratchRemoved ==
    (scratch.state = "ended" /\ scratch.contentFilter) =>
        /\ scratch.made = 1
        /\ scratch.contentFilterDir \notin scratch.dirs

\* A sync command with a content filter found no changes to import and
\* returned: its scratch directory is still there
C32_LeftAfterNoChanges ==
    /\ scratch.state = "ended" /\ scratch.contentFilter
    /\ scratch.exit = "return" /\ scratch.left = 0
    /\ scratch.contentFilterDir \in scratch.dirs

----------------------------------------------------------------------------
(* Mappings that name the same destination branch: getBranchMapping on a   *)
(* new P4Sync object, over the views of the depot's branch specs and the   *)
(* git-p4.branchList entries, each given as <<source, destination>>.       *)

\* The mappings of the branch specs, and of the configuration
MapPairs ==
    { <<>>,
      << <<Main, SplitA>> >>,
      << <<Main, SplitA>>, <<SplitADash, SplitA>> >>,
      << <<SplitADash, SplitA>>, <<Main, SplitA>> >>,
      << <<Main, SplitADash>>, <<Main, SplitA>> >> }

\* The views of the branch specs that define the mappings
RECURSIVE ViewsOf(_)
ViewsOf(pairs) ==
    IF pairs = <<>> THEN <<>>
    ELSE <<SplitView(Head(pairs)[1], Head(pairs)[2])>> \o ViewsOf(Tail(pairs))

\* P4Sync.getBranchMapping on a new object
MapBuild ==
    /\ spl.state = "none"
    /\ \E order \in SplitOrders, specs \in MapPairs, config \in MapPairs :
          spl' = [order |-> order, known |-> getBranchMapping(order, DepotRoot, EmptyMap, ViewsOf(specs),
                                             config), specs |-> specs, config |-> config,
                  state |-> "mapped"]
    /\ UNCHANGED <<depot, git, sync, runs, hist, sub, client, nt, mrg, rdr, scratch>>

MapSpec == SplitInit /\ [][MapBuild]_vars

\* The mappings in the order getBranchMapping meets them
Mappings == IF spl.state = "none" THEN <<>> ELSE spl.specs \o spl.config

\* The source of the first mapping that names the destination
FirstSourceOf(d) ==
    Mappings[CHOOSE i \in DOMAIN Mappings :
                 /\ Mappings[i][2] = d
                 /\ \A j \in 1..(i - 1) : Mappings[j][2] # d][1]

\* C33: every destination that a mapping names is a known branch, and its
\* source is the source of the first mapping that names it, whether the
\* mappings come from branch specs or from git-p4.branchList.
C33_FirstMappingKept ==
    \A i \in DOMAIN Mappings :
        /\ Mappings[i][2] \in DOMAIN spl.known
        /\ spl.known[Mappings[i][2]] = FirstSourceOf(Mappings[i][2])

\* Two git-p4.branchList entries name the branch x/a: the source of the
\* second one is kept
C33_LaterEntryKept ==
    /\ spl.state = "mapped"
    /\ spl.specs = <<>>
    /\ spl.config = << <<Main, SplitA>>, <<SplitADash, SplitA>> >>
    /\ spl.known[SplitA] = SplitADash

----------------------------------------------------------------------------
(* The path that stripRepoPath writes for a file under one of the prefixes *)

StripDirs == { DepotRoot, DepotRoot \o Main \o Slash, DepotRoot \o SplitA \o Slash,
               DepotRoot \o SplitAB \o Slash }

StripFileNames == { FileF, <<"%", "4", "0", "f">> }

\* Lists of one to three different prefixes
StripPrefixLists ==
    { l \in UNION { [1..n -> StripDirs] : n \in 1..3 } :
        \A i, j \in DOMAIN l : i # j => l[i] # l[j] }

\* P4Sync.stripRepoPath on the target path of a file of the commit
StripPath ==
    /\ spl.state = "none"
    /\ \E keep \in BOOLEAN, dir \in StripDirs \ {DepotRoot}, name \in StripFileNames,
          prefixes \in StripPrefixLists :
          /\ \E i \in DOMAIN prefixes : StartsWith(dir \o name, prefixes[i])
          /\ spl' = [path |-> dir \o name, prefixes |-> prefixes, keepRepoPath |-> keep,
                     relPath |-> stripRepoPath([Idle EXCEPT !.keepRepoPath = keep],
                                               dir \o name, prefixes),
                     state |-> "stripped"]
    /\ UNCHANGED <<depot, git, sync, runs, hist, sub, client, nt, mrg, rdr, scratch>>

StripSpec == SplitInit /\ [][StripPath]_vars

\* The longest of the prefixes that the path starts with
LongestPrefix(path, prefixes) ==
    CHOOSE q \in { prefixes[i] : i \in DOMAIN prefixes } :
        /\ StartsWith(path, q)
        /\ \A i \in DOMAIN prefixes :
               StartsWith(path, prefixes[i]) => Len(prefixes[i]) <= Len(q)

\* C34: relPath is the target path without the longest prefix it starts
\* with, or without the depot root //d/ when keepRepoPath is set (decoded
\* from the percent encoding), in whatever order the prefixes are listed.
C34_LongestPrefixRemoved ==
    spl.state = "stripped" =>
        spl.relPath = UrlUnquote(StripPrefix(spl.path,
                                     IF spl.keepRepoPath THEN DepotRoot
                                     ELSE LongestPrefix(spl.path, spl.prefixes)))

\* //d/ is listed before //d/main/: the file //d/main/f is written as main/f
C34_ShorterPrefixFirst ==
    /\ spl.state = "stripped"
    /\ ~spl.keepRepoPath
    /\ spl.prefixes = <<DepotRoot, DepotRoot \o Main \o Slash>>
    /\ spl.path = MainF
    /\ spl.relPath = Main \o Slash \o FileF

(***************************************************************************)
(* One commit per branch and changelist                                    *)
(***************************************************************************)

\* The branch of repository g has a commit whose note names the changelist
BranchHasChange(g, ref, change) ==
    /\ ref \in DOMAIN g.refs
    /\ \E c \in Ancestors(g, g.refs[ref]) : ChangeOfCommit(g, c) = change

\* C35: a run with branch detection emits at most one commit for a branch
\* and a changelist, and importing the earlier changelists of a new branch
\* emits no commit on a branch for a changelist the branch already has.
C35_OneCommitPerBranchChange ==
    sync.detectBranches =>
        /\ \A i, j \in Commits :
               (Stream[i].ref = Stream[j].ref /\ Stream[i].of = Stream[j].of) => i = j
        /\ \A i \in Commits :
               Stream[i].of # 0 => ~BranchHasChange(Before, Stream[i].ref, Stream[i].of)

\* While the earlier changelists of new branch b are imported, a commit is
\* emitted on master for a changelist that is older than the changes of
\* the run and that master has already
C35_ReEmittedOnMaster ==
    \E i \in Commits :
        /\ sync.detectBranches
        /\ Stream[1].kind = "checkpoint"
        /\ Stream[i].ref = MasterRef
        /\ Stream[i].of # 0
        /\ \A k \in DOMAIN sync.todo : Stream[i].of < sync.todo[k]
        /\ BranchHasChange(Before, MasterRef, Stream[i].of)
        /\ gitRefForBranch(BranchB) \notin DOMAIN Before.refs

----------------------------------------------------------------------------
(* Syncs without branch detection onto the import branch of an earlier     *)
(* sync, with a tree filter that leaves some changelists without files.    *)

ResumeInit ==
    /\ Init
    /\ depot.specs = <<SpecMainToB>>
    /\ depot.order = <<Main, Master, BranchB>>

\* The sync command with or without the tree filter that drops the files
\* named f
ResumeSync ==
    \E args \in ArgSets, filter \in {"", "dropF"} :
        SyncWith(args, [treeFilter |-> filter, fuzzyTags |-> FALSE,
                        detectBranches |-> FALSE, detectLabels |-> FALSE,
                        useClientSpec |-> FALSE])

ResumeNext == DepotSubmit \/ ResumeSync

ResumeSpec == ResumeInit /\ [][ResumeNext]_vars

\* The first commit and the first note of the stream
FirstCommit == CHOOSE i \in Commits : \A k \in Commits : i <= k
FirstNote == CHOOSE i \in Notes : \A k \in Notes : i <= k

\* The last command ran without branch detection, imported changelists
\* onto a branch that existed and emitted a commit
OntoExisting ==
    /\ Commits # {}
    /\ ~sync.detectBranches
    /\ sync.todo # <<>>
    /\ sync.branch \in DOMAIN Before.refs

\* C36: in a sync without branch detection onto an existing import branch
\* the first commit emitted has the tip the branch had before the run in
\* its "from" line and the first note has the tip the notes had, also when
\* earlier changelists of the run were ignored for having no files.
C36_FirstCommitFromTip ==
    OntoExisting =>
        /\ Stream[FirstCommit].from = Before.refs[sync.branch]
        /\ Stream[FirstNote].from = Before.ntip

\* The first changelist of the run was ignored, and the commit of a later
\* one is the first of the stream: it has no "from" line, nor has its note
C36_NoFromAfterIgnored ==
    /\ OntoExisting
    /\ sync.todo[1] < Stream[FirstCommit].of
    /\ Stream[FirstCommit].from = 0
    /\ Stream[FirstNote].from = 0
    /\ Before.ntip # 0

(***************************************************************************)
(* The sets of getChangedFiles                                             *)
(***************************************************************************)

\* getChangedFiles has classified the diff entries of the commits
Classified == sub.state \in {"applied", "died", "done"} /\ sub.diffs # <<>>

\* C37: when getChangedFiles has classified the diff entries of the
\* commits, no path is in filesToAdd and in filesToDelete, and no path
\* of filesToDelete is in editedFiles.
C37_DisjointSets ==
    Classified =>
        /\ sub.filesToAdd \cap sub.filesToDelete = {}
        /\ sub.filesToDelete \cap sub.editedFiles = {}

\* Shelve of two commits, the first modifies f and the second renames it
\* to n: f is in editedFiles and in filesToDelete
C37_EditedThenRenamed ==
    /\ Classified
    /\ sub.shelve
    /\ Len(sub.diffs) = 2
    /\ sub.diffs[1].status = "M" /\ sub.diffs[1].src = FileF
    /\ sub.diffs[2].status = "R" /\ sub.diffs[2].src = FileF
    /\ FileF \in sub.editedFiles \cap sub.filesToDelete

(***************************************************************************)
(* A patch that does not apply and is skipped                              *)
(***************************************************************************)

\* The patch of commit id of the batch did not apply and the user chose to
\* skip the commit
Skipped(id) == ~sub.done[id].applies /\ sub.done[id].response = "s"

\* The commands sent to the depot client for the last commit applied, after
\* revertCommit returned (sub.reverted is the length of the log then)
AfterRevertCommit ==
    IF sub.skipped
    THEN {client.log[k].name : k \in (sub.reverted + 1)..Len(client.log)}
    ELSE {}

\* C38: when the patch of a commit does not apply and the user chooses to
\* skip, the commit is not submitted, no add, delete or reopen is sent for
\* its files after the revert, it gets no note, and the command goes on
\* with the next commit.
C38_SkipSubmitsNothing ==
    \A id \in Applied :
        (~sub.shelve /\ Skipped(id)) =>
            /\ ~sub.done[id].sent
            /\ id \notin Noted
            /\ id = Len(sub.done) =>
                  /\ AfterRevertCommit \cap {"add", "delete", "reopen", "submit"} = {}
                  /\ sub.state # "died"
                  /\ ~sub.abort

\* The only commit of the batch deletes a file; its patch did not apply
\* and the user chose to skip: after revertCommit the file was opened for
\* delete, the changelist was submitted and the commit has a note
C38_SkippedDeleteSubmitted ==
    /\ sub.state = "done" /\ ~sub.shelve
    /\ Applied = {1}
    /\ Skipped(1)
    /\ sub.diffs[1].status = "D"
    /\ sub.done[1].sent
    /\ 1 \in Noted
    /\ {"delete", "submit"} \subseteq AfterRevertCommit

(***************************************************************************)
(* Renames and copies in a shelve                                          *)
(***************************************************************************)

\* editedFiles as P4Submit.getChangedFiles leaves it for the diff entries
\* of the run when self is a P4Submit
EditedBySubmit ==
    getChangedFiles([s |-> [sub EXCEPT !.shelve = FALSE, !.editedFiles = {},
                                       !.filesToAdd = {}, !.filesToDelete = {},
                                       !.filesToChangeExecBit = EmptyMap],
                     c |-> client, dead |-> FALSE], sub.diffs).s.editedFiles

\* C39: in a shelve the destination of every R and C entry is in
\* editedFiles and the source of every R entry is in filesToDelete, and
\* editedFiles is the set a submit computes for the same diff entries.
C39_ShelveEditsLikeSubmit ==
    (Classified /\ sub.shelve) =>
        /\ \A k \in DOMAIN sub.diffs :
               /\ sub.diffs[k].status \in {"R", "C"} => sub.diffs[k].dst \in sub.editedFiles
               /\ sub.diffs[k].status = "R" => sub.diffs[k].src \in sub.filesToDelete
        /\ sub.editedFiles = EditedBySubmit

\* A shelve of a commit that renames f to n: editedFiles holds None and
\* not n, which a submit has in it
C39_NoneForRename ==
    /\ Classified /\ sub.shelve
    /\ \E k \in DOMAIN sub.diffs :
          sub.diffs[k].status = "R" /\ sub.diffs[k].dst = FileN
    /\ None \in sub.editedFiles
    /\ FileN \notin sub.editedFiles
    /\ FileN \in EditedBySubmit

(***************************************************************************)
(* The initial parents of the branches                                     *)
(***************************************************************************)

\* Commit i is the first commit of the stream on its ref
FirstOnRef(i) == \A k \in Commits : k < i => Stream[k].ref # Stream[i].ref

\* C40: with branch detection, a commit that has a "from" line is the first
\* commit of the run on its branch, the first commit on a branch that
\* existed has one, and the entry of initialParents of every branch that
\* got a commit is removed: every later commit on the branch has no "from".
C40_InitialParentOnce ==
    sync.detectBranches =>
        \A i \in Commits :
            /\ Stream[i].ref \notin DOMAIN sync.initialParents
            /\ Stream[i].from # 0 => FirstOnRef(i)
            /\ (FirstOnRef(i) /\ Stream[i].ref \in DOMAIN Before.refs) => Stream[i].from # 0

\* Two commits of a run on a branch that existed: the first has the tip of
\* the branch in its "from" line, the second has no "from" line
C40_FromThenNone ==
    \E i, j \in Commits :
        /\ sync.detectBranches
        /\ i < j
        /\ Stream[i].ref = Stream[j].ref
        /\ Stream[i].ref \in DOMAIN Before.refs
        /\ Stream[i].from = Before.refs[Stream[i].ref]
        /\ Stream[j].from = 0
====
